---- MODULE Spec2Model ----
(***************************************************************************)
(* Session lifecycle of the Fruitbot servers: tutorial_app.py (one tick    *)
(* loop task per user, continuous key input) and final_app.py (one global  *)
(* auto-forward task, an idle reaper, discrete send_action input).         *)
(*                                                                         *)
(* Both servers run on one asyncio event loop.  A task runs without        *)
(* interruption until it awaits something that suspends it: a lock that is *)
(* held, a sleep, or a transport operation.  Every action below is one     *)
(* such run of one task, from where it was resumed (or started) to where   *)
(* it is suspended next (or ends).                                         *)
(***************************************************************************)
EXTENDS Integers, Sequences, FiniteSets, TLC

\* ---------------------------------------------------------------- bounds
MaxEnvs == 2        \* engine instances created in one run
MaxEpisode == 2     \* episodes started on one session
MaxSteps == 2       \* steps taken within one episode
MaxFailures == 1    \* engine calls that raise in one run

Users == {"alice", "bob"}
Sids == {"s1", "s2"}
Rewards == {-100, 0, 50}                \* engine rewards, in hundredths
AllKeys == {"ArrowLeft", "ArrowRight", "Space", "KeyX"}
LoopNames == <<"L1", "L2", "L3", "L4", "L5">>

ACTION_FORWARD == 1

\* auto_action_handler looks every 20 ms and steps a session whose last action
\* is at least 50 ms old: a session just acted on can be found too recent on
\* the next two passes, and is old enough on the third at the latest.
RecentPasses == 2

VARIABLES
    app,                    \* which server is running: "tutorial" or "final"
    envs,                   \* engine instances, in creation order
    handlers,               \* per connection: its suspended event handler
    emitted,                \* the event the last step handed to the transport
    published,              \* history: the episodes begun and ended on the wire
    delivered,              \* history: per connection, the last result sent to it
    game_controls,          \* tutorial_app: user -> session
    sid_to_user,            \* tutorial_app: ordered dict sid -> user
    user_game_loops,        \* tutorial_app: user -> index of its loop task
    game_controls_lock,     \* tutorial_app: holder across a suspension
    sid_to_user_lock,
    loopTasks,              \* tutorial_app: the user_game_loop tasks created
    final_game_controls,    \* final_app: ordered dict user -> session
    final_sid_to_user,      \* final_app: ordered dict sid -> user
    final_game_controls_lock,
    final_sid_to_user_lock,
    autoTask,               \* final_app: the auto_action_handler task
    cleanupTask             \* final_app: the cleanup_stale_connections task

tvars == <<game_controls, sid_to_user, user_game_loops, game_controls_lock,
           sid_to_user_lock, loopTasks>>
fvars == <<final_game_controls, final_sid_to_user, final_game_controls_lock,
           final_sid_to_user_lock, autoTask, cleanupTask>>
vars == <<app, envs, handlers, emitted, published, delivered, tvars, fvars>>

\* ------------------------------------------------- ordered dictionaries
\* A Python dict that the code iterates: a sequence of <<key, value>> in
\* insertion order.
DictHas(d, k) == \E i \in DOMAIN d : d[i][1] = k

DictGet(d, k) == d[CHOOSE i \in DOMAIN d : d[i][1] = k][2]

DictSet(d, k, v) ==
    IF DictHas(d, k)
    THEN [i \in DOMAIN d |-> IF d[i][1] = k THEN <<k, v>> ELSE d[i]]
    ELSE Append(d, <<k, v>>)

DictDel(d, k) == SelectSeq(d, LAMBDA p : p[1] # k)

\* [sid for sid, uid in d.items() if uid == user_id]
SidsOfUser(d, u) ==
    LET hit == SelectSeq(d, LAMBDA p : p[2] = u)
    IN  [i \in DOMAIN hit |-> hit[i][1]]

SeqToSet(s) == {s[i] : i \in DOMAIN s}

\* A plain dict (never iterated): a function on the keys present.
MapSet(m, k, v) == [x \in DOMAIN m \cup {k} |-> IF x = k THEN v ELSE m[x]]

MapDel(m, k) == [x \in DOMAIN m \ {k} |-> m[x]]

\* ------------------------------------------------------------- engines
\* An engine instance, with what has been done to it: how often close() was
\* called, whether a call raised, the action of the last step() call, and for
\* the episode of the session that owns it the rounded rewards and the last
\* of the result records built from its steps (over: that episode has ended).
NoRes == [image |-> 0, episode |-> 0, reward |-> 0, done |-> FALSE, score |-> 0,
          last_score |-> 0, has_episode_finished |-> FALSE,
          episode_finished |-> FALSE, step_count |-> 0]

NewEnv(u) == [owner |-> u, closed |-> 0, raised |-> FALSE, action |-> -1,
              rewards |-> <<>>, over |-> FALSE, last_result |-> NoRes]

\* round(float(reward), 1) of an engine reward given in hundredths, as tenths.
Round1(h) == (h + 5) \div 10

\* env.reset() and the forward step that starts the episode.
EnvReset(es, e, a) ==
    [es EXCEPT ![e].action = a, ![e].rewards = <<>>, ![e].over = FALSE,
               ![e].last_result = NoRes]

\* env.step(a) answered with done; res is the result record built from the
\* answer, whose reward joins the rewards reported for the episode.
EnvStep(es, e, a, done, res) ==
    [es EXCEPT ![e].action = a,
               ![e].rewards = Append(IF es[e].over THEN <<>> ELSE @, res.reward),
               ![e].over = done,
               ![e].last_result = res]

EnvClose(es, e) == [es EXCEPT ![e].closed = IF @ < 2 THEN @ + 1 ELSE @]

EnvRaise(es, e) == [es EXCEPT ![e].raised = TRUE]

MayRaise == Cardinality({e \in DOMAIN envs : envs[e].raised}) < MaxFailures

\* ------------------------------------------------------------ messages
NoMsg == [event |-> "none", to |-> "none", res |-> NoRes]

Msg(ev, sid, r) == [event |-> ev, to |-> sid, res |-> r]

\* The first observation of an episode: the game_update with no step taken.
IsInitial(m) == m.event = "game_update" /\ m.res.step_count = 0

\* A progress event: the result of a step that did not end the episode.
IsProgress(m) ==
    \/ m.event = "frame"
    \/ m.event = "game_update" /\ m.res.step_count > 0

\* History of what has been published: the episodes (engine, number) whose
\* first observation went out ("initial") and whose end went out ("finished").
\* An event that carries a result record.
CarriesResult(m) == m.event \in {"game_update", "frame", "episode_finished"}

\* What is remembered of a result sent to a connection.
Brief(r) == [image |-> r.image, episode |-> r.episode, step_count |-> r.step_count,
             done |-> r.done]

\* The history of deliveries: kept (on) only in the specifications whose
\* properties read it.
Deliveries(on) == [on |-> on, last |-> [s \in Sids |-> Brief(NoRes)]]

Observe ==
    /\ published' =
          IF emitted'.event = "episode_finished"
          THEN published \cup {<<"finished", emitted'.res.image, emitted'.res.episode>>}
          ELSE IF IsInitial(emitted')
          THEN published \cup {<<"initial", emitted'.res.image, emitted'.res.episode>>}
          ELSE published
    /\ delivered' =
          IF delivered.on /\ CarriesResult(emitted')
          THEN [delivered EXCEPT !.last[emitted'.to] = Brief(emitted'.res)]
          ELSE delivered

\* ------------------------------------------ FruitbotTutorialControl
FruitbotTutorialControl(e) ==
    [env |-> e, episode_num |-> 0, score |-> 0, last_score |-> 0,
     current_obs |-> FALSE, episode_done |-> FALSE, step_count |-> 0,
     keys_pressed |-> {}, running |-> FALSE]

reset(g) ==
    [g EXCEPT !.score = 0, !.step_count = 0, !.current_obs = TRUE,
              !.episode_done = FALSE, !.keys_pressed = {}]

\* Variant: ArrowRight takes precedence over ArrowLeft.
get_current_action_right_first(keys) ==
    IF "ArrowRight" \in keys THEN 2
    ELSE IF "ArrowLeft" \in keys THEN 0
    ELSE IF "Space" \in keys THEN 3
    ELSE ACTION_FORWARD

get_current_action(keys) ==
    IF "ArrowLeft" \in keys THEN 0
    ELSE IF "ArrowRight" \in keys THEN 2
    ELSE IF "Space" \in keys THEN 3
    ELSE ACTION_FORWARD

\* Variant: the result record reports the step count before the step.
step_result_stale_count(g, reward, done) ==
    [image |-> g.env, episode |-> g.episode_num, reward |-> Round1(reward),
     done |-> done, score |-> g.score + Round1(reward), last_score |-> g.last_score,
     has_episode_finished |-> TRUE, episode_finished |-> done,
     step_count |-> g.step_count]

\* The result record of step(), built before the done-branch runs.
step_result(g, reward, done) ==
    [image |-> g.env, episode |-> g.episode_num, reward |-> Round1(reward),
     done |-> done, score |-> g.score + Round1(reward), last_score |-> g.last_score,
     has_episode_finished |-> TRUE, episode_finished |-> done,
     step_count |-> g.step_count + 1]

\* Variant: the reward is cut to one decimal before it joins the score.
step_game_truncating(g, reward, done) ==
    IF done
    THEN [g EXCEPT !.last_score = g.score + reward \div 10, !.score = 0,
                   !.step_count = 0, !.current_obs = TRUE]
    ELSE [g EXCEPT !.score = g.score + reward \div 10,
                   !.step_count = g.step_count + 1, !.current_obs = TRUE]

\* The session after a step() that the engine answered with (reward, done).
step_game(g, reward, done) ==
    IF done
    THEN [g EXCEPT !.last_score = g.score + Round1(reward), !.score = 0,
                   !.step_count = 0, !.current_obs = TRUE]
    ELSE [g EXCEPT !.score = g.score + Round1(reward),
                   !.step_count = g.step_count + 1, !.current_obs = TRUE]

\* get_initial_observation: episode_num += 1, reset(), one forward step.
initial_game_same_episode(g) == reset(g)

initial_game(g) == reset([g EXCEPT !.episode_num = g.episode_num + 1])

initial_response(g) ==
    [image |-> g.env, episode |-> g.episode_num, reward |-> 0, done |-> FALSE,
     score |-> g.score, last_score |-> g.last_score,
     has_episode_finished |-> TRUE, episode_finished |-> FALSE,
     step_count |-> g.step_count]

\* The session left behind when the engine raises in get_initial_observation:
\* in reset() (nothing but episode_num changed) or in the forward step.
initial_failed(g) ==
    {[g EXCEPT !.episode_num = g.episode_num + 1], initial_game(g)}

\* --------------------------------------------------------------- tasks
\* A handler task that is suspended: its event, where it waits, and the
\* locals it needs when it goes on.
\* res is the response a send_action handler of final_app holds while it
\* reports a failed save of the score.
Idle == [kind |-> "idle", pc |-> "idle", user |-> "none", key |-> "none", res |-> NoRes]

Handler(kind, pc, user, key) ==
    [kind |-> kind, pc |-> pc, user |-> user, key |-> key, res |-> NoRes]

NewLoop(u) == [user |-> u, pc |-> "top", result |-> NoRes, sids |-> <<>>]

LoopLive(t) == t.pc \notin {"ended", "failed", "cancelled"}

\* Variant: the task is not cancelled.
CancelLoop_not(ts, i) == ts

\* task.cancel(): a finished task stays as it is, any other never runs again.
CancelLoop(ts, i) ==
    IF LoopLive(ts[i]) THEN [ts EXCEPT ![i].pc = "cancelled"] ELSE ts

InFlight == Cardinality({s \in Sids : handlers[s].kind \in {"start_game", "next_episode"}})

MaxEpisodeNum ==
    LET S == {game_controls[u].episode_num : u \in DOMAIN game_controls}
             \cup {final_game_controls[i][2].episode_num : i \in DOMAIN final_game_controls}
    IN  IF S = {} THEN 0 ELSE CHOOSE m \in S : \A x \in S : x <= m

\* An event that may create a session or start an episode is accepted only
\* while the bounds leave room for it.
RoomToStart ==
    /\ Len(envs) + InFlight < MaxEnvs
    /\ MaxEpisodeNum + InFlight < MaxEpisode

NoAuto == [pc |-> "sleep", items |-> <<>>, bound |-> FALSE, current_result |-> NoRes,
           sids |-> <<>>]

\* The module state of either server at start.
InitState ==
    /\ app \in {"tutorial", "final"}
    /\ final_game_controls = <<>>
    /\ final_sid_to_user = <<>>
    /\ final_game_controls_lock = "free"
    /\ final_sid_to_user_lock = "free"
    /\ autoTask = NoAuto
    /\ cleanupTask = "sleep"
    /\ envs = <<>>
    /\ handlers = [s \in Sids |-> Idle]
    /\ emitted = NoMsg
    /\ published = {}
    /\ game_controls = <<>>
    /\ sid_to_user = <<>>
    /\ user_game_loops = <<>>
    /\ game_controls_lock = "free"
    /\ sid_to_user_lock = "free"
    /\ loopTasks = <<>>

Init == InitState /\ delivered = Deliveries(FALSE)

\* A new event can arrive on a connection whose last handler has finished.
Fresh(sid) == app = "tutorial" /\ handlers[sid] = Idle

Finish(sid) == handlers' = [handlers EXCEPT ![sid] = Idle]

Suspend(sid, h) == handlers' = [handlers EXCEPT ![sid] = h]

\* ------------------- tutorial_app: the blocks under game_controls_lock
\* Each G_ operator is the rest of a handler from the point where it has
\* game_controls_lock: it says what becomes of envs, game_controls,
\* user_game_loops, loopTasks, emitted and handlers.

\* Variant: the clean-up stops the loop and closes the engine but leaves the
\* session in the table.
G_retire_keep_session(sid, u) ==
    /\ IF u \in DOMAIN game_controls
       THEN envs' = EnvClose(envs, game_controls[u].env)
       ELSE UNCHANGED envs
    /\ UNCHANGED game_controls
    /\ IF u \in DOMAIN user_game_loops
       THEN /\ loopTasks' = CancelLoop(loopTasks, user_game_loops[u])
            /\ user_game_loops' = MapDel(user_game_loops, u)
       ELSE UNCHANGED <<loopTasks, user_game_loops>>
    /\ emitted' = NoMsg
    /\ Finish(sid)

\* The clean-up block of disconnect and finish_tutorial: stop and close the
\* session, delete it, cancel and forget the loop task.
G_retire(sid, u) ==
    /\ IF u \in DOMAIN game_controls
       THEN /\ envs' = EnvClose(envs, game_controls[u].env)
            /\ game_controls' = MapDel(game_controls, u)
       ELSE UNCHANGED <<envs, game_controls>>
    /\ IF u \in DOMAIN user_game_loops
       THEN /\ loopTasks' = CancelLoop(loopTasks, user_game_loops[u])
            /\ user_game_loops' = MapDel(user_game_loops, u)
       ELSE UNCHANGED <<loopTasks, user_game_loops>>
    /\ emitted' = NoMsg
    /\ Finish(sid)

\* get_initial_observation, running = True and the game_update, on the
\* session table gc and engines es as they are once a missing session has
\* been created.  An engine that raises (F: the engine may) ends the handler.
G_begin_episode(sid, u, gc, es, F) ==
    /\ Finish(sid)
    /\ \/ /\ game_controls' = MapSet(gc, u, [initial_game(gc[u]) EXCEPT !.running = TRUE])
          /\ envs' = EnvReset(es, gc[u].env, ACTION_FORWARD)
          /\ emitted' = Msg("game_update", sid, initial_response(initial_game(gc[u])))
       \/ /\ F /\ MayRaise
          /\ \E g \in initial_failed(gc[u]) : game_controls' = MapSet(gc, u, g)
          /\ envs' = EnvRaise(es, gc[u].env)
          /\ emitted' = NoMsg

\* Variant: start_game installs a new engine, session and loop whether or not
\* the user has a session.
G_start_game_always_create(sid, u, F) ==
    LET es == Append(envs, NewEnv(u))
    IN  /\ loopTasks' = Append(loopTasks, NewLoop(u))
        /\ user_game_loops' = MapSet(user_game_loops, u, Len(loopTasks) + 1)
        /\ G_begin_episode(sid, u,
               MapSet(game_controls, u, FruitbotTutorialControl(Len(es))), es, F)

G_start_game(sid, u, F) ==
    IF u \notin DOMAIN game_controls
    THEN LET es == Append(envs, NewEnv(u))
         IN  /\ loopTasks' = Append(loopTasks, NewLoop(u))
             /\ user_game_loops' = MapSet(user_game_loops, u, Len(loopTasks) + 1)
             /\ G_begin_episode(sid, u,
                    MapSet(game_controls, u, FruitbotTutorialControl(Len(es))), es, F)
    ELSE /\ UNCHANGED <<loopTasks, user_game_loops>>
         /\ G_begin_episode(sid, u, game_controls, envs, F)

G_next_episode(sid, u, F) ==
    IF u \notin DOMAIN game_controls
    THEN LET es == Append(envs, NewEnv(u))
         IN  /\ IF u \notin DOMAIN user_game_loops
                THEN /\ loopTasks' = Append(loopTasks, NewLoop(u))
                     /\ user_game_loops' = MapSet(user_game_loops, u, Len(loopTasks) + 1)
                ELSE UNCHANGED <<loopTasks, user_game_loops>>
             /\ G_begin_episode(sid, u,
                    MapSet(game_controls, u, FruitbotTutorialControl(Len(es))), es, F)
    ELSE /\ UNCHANGED <<loopTasks, user_game_loops>>
         /\ G_begin_episode(sid, u, game_controls, envs, F)

\* Variant: a release empties the held-input set.
G_key_release_all(sid, u, k, add, next) ==
    /\ game_controls' =
          IF u \in DOMAIN game_controls
          THEN [game_controls EXCEPT
                   ![u].keys_pressed = IF add THEN @ \cup {k} ELSE {}]
          ELSE game_controls
    /\ Suspend(sid, next)
    /\ emitted' = NoMsg
    /\ UNCHANGED <<envs, user_game_loops, loopTasks>>

\* keys_pressed.add(key) / keys_pressed.discard(key) of u's session, if any.
G_key(sid, u, k, add, next) ==
    /\ game_controls' =
          IF u \in DOMAIN game_controls
          THEN [game_controls EXCEPT
                   ![u].keys_pressed = IF add THEN @ \cup {k} ELSE @ \ {k}]
          ELSE game_controls
    /\ Suspend(sid, next)
    /\ emitted' = NoMsg
    /\ UNCHANGED <<envs, user_game_loops, loopTasks>>

\* The block of handler h (its user known) under game_controls_lock.
G_block(sid, h, F) ==
    CASE h.kind = "disconnect" -> G_retire(sid, h.user)
      [] h.kind = "finish_tutorial" -> G_retire(sid, h.user)
      [] h.kind = "start_game" -> G_start_game(sid, h.user, F)
      [] h.kind = "next_episode" -> G_next_episode(sid, h.user, F)
      [] h.kind = "key_down" -> G_key(sid, h.user, h.key, TRUE, Idle)
      [] h.kind = "key_up" -> G_key(sid, h.user, h.key, FALSE, Idle)
      [] h.kind = "send_action" ->
            \* add the key, then asyncio.sleep(0.1)
            G_key(sid, h.user, h.key, TRUE,
                  Handler("send_action", "sa_sleep", h.user, h.key))

\* Go on to the block under game_controls_lock, or wait for the lock.
\* Variant: the block is entered whether or not game_controls_lock is free.
EnterGame_unlocked(sid, h, F) == G_block(sid, h, F)

EnterGame(sid, h, F) ==
    IF game_controls_lock = "free"
    THEN G_block(sid, h, F)
    ELSE /\ Suspend(sid, h)
         /\ emitted' = NoMsg
         /\ UNCHANGED <<envs, game_controls, user_game_loops, loopTasks>>

\* Variant: disconnect goes on to the clean-up whether or not the user has
\* other connections.
S_disconnect_always_retire(sid, F) ==
    IF ~DictHas(sid_to_user, sid)
    THEN /\ Finish(sid)
         /\ emitted' = NoMsg
         /\ UNCHANGED <<envs, tvars>>
    ELSE LET u == DictGet(sid_to_user, sid)
         IN  /\ sid_to_user' = DictDel(sid_to_user, sid)
             /\ UNCHANGED game_controls_lock
             /\ EnterGame(sid, Handler("disconnect", "d_game", u, "none"), F)
             /\ sid_to_user_lock' =
                   IF game_controls_lock = "free" THEN "free" ELSE sid

\* ---------------------------------- tutorial_app: the handlers' starts
\* disconnect: unbind under sid_to_user_lock; for the user's last connection
\* go on to the clean-up with sid_to_user_lock still held.
S_disconnect(sid, F) ==
    IF ~DictHas(sid_to_user, sid)
    THEN /\ Finish(sid)
         /\ emitted' = NoMsg
         /\ UNCHANGED <<envs, tvars>>
    ELSE LET u == DictGet(sid_to_user, sid)
             rest == DictDel(sid_to_user, sid)
         IN  /\ sid_to_user' = rest
             /\ UNCHANGED game_controls_lock
             /\ IF SidsOfUser(rest, u) # <<>>
                THEN /\ Finish(sid)
                     /\ emitted' = NoMsg
                     /\ UNCHANGED <<envs, game_controls, user_game_loops, loopTasks,
                                    sid_to_user_lock>>
                ELSE /\ EnterGame(sid, Handler("disconnect", "d_game", u, "none"), F)
                     /\ sid_to_user_lock' =
                           IF game_controls_lock = "free" THEN "free" ELSE sid

\* start_game: sid_to_user[sid] = user_id, then the session block.
S_start_game(sid, u, F) ==
    /\ sid_to_user' = DictSet(sid_to_user, sid, u)
    /\ EnterGame(sid, Handler("start_game", "sg_game", u, "none"), F)
    /\ UNCHANGED <<game_controls_lock, sid_to_user_lock>>

\* next_episode, key_down, key_up, send_action: sid_to_user.get(sid); an
\* unbound connection ends the handler (next_episode reports it).
S_lookup(sid, kind, pc, k, F) ==
    /\ UNCHANGED <<sid_to_user, game_controls_lock, sid_to_user_lock>>
    /\ IF DictHas(sid_to_user, sid)
       THEN EnterGame(sid, Handler(kind, pc, DictGet(sid_to_user, sid), k), F)
       ELSE /\ Finish(sid)
            /\ emitted' = IF kind = "next_episode"
                          THEN Msg("error", sid, NoRes) ELSE NoMsg
            /\ UNCHANGED <<envs, game_controls, user_game_loops, loopTasks>>

\* The start of handler h, which needs sid_to_user_lock first.
S_block(sid, h, F) ==
    CASE h.kind = "disconnect" -> S_disconnect(sid, F)
      [] h.kind = "start_game" -> S_start_game(sid, h.user, F)
      [] h.kind = "next_episode" -> S_lookup(sid, "next_episode", "ne_game", "none", F)
      [] h.kind = "key_down" -> S_lookup(sid, "key_down", "kd_game", h.key, F)
      [] h.kind = "key_up" -> S_lookup(sid, "key_up", "ku_game", h.key, F)
      [] h.kind = "send_action" -> S_lookup(sid, "send_action", "sa_add", h.key, F)

\* ------------------------------------------------ tutorial_app: events
T_disconnect(sid, F) ==
    /\ Fresh(sid) /\ sid_to_user_lock = "free"
    /\ S_disconnect(sid, F)
    /\ UNCHANGED <<app, fvars>>
    /\ Observe

T_start_game(sid, u, F) ==
    /\ Fresh(sid) /\ sid_to_user_lock = "free"
    /\ RoomToStart
    /\ S_start_game(sid, u, F)
    /\ UNCHANGED <<app, fvars>>
    /\ Observe

T_next_episode(sid, F) ==
    /\ Fresh(sid) /\ sid_to_user_lock = "free"
    /\ RoomToStart
    /\ S_lookup(sid, "next_episode", "ne_game", "none", F)
    /\ UNCHANGED <<app, fvars>>
    /\ Observe

T_key_down(sid, k) ==
    /\ Fresh(sid) /\ sid_to_user_lock = "free"
    /\ S_lookup(sid, "key_down", "kd_game", k, FALSE)
    /\ UNCHANGED <<app, fvars>>
    /\ Observe

T_key_up(sid, k) ==
    /\ Fresh(sid) /\ sid_to_user_lock = "free"
    /\ S_lookup(sid, "key_up", "ku_game", k, FALSE)
    /\ UNCHANGED <<app, fvars>>
    /\ Observe

T_send_action(sid, k) ==
    /\ Fresh(sid) /\ sid_to_user_lock = "free"
    /\ S_lookup(sid, "send_action", "sa_add", k, FALSE)
    /\ UNCHANGED <<app, fvars>>
    /\ Observe

\* send_action after its sleep: discard the key under game_controls_lock.
T_send_action_release(sid) ==
    /\ app = "tutorial"
    /\ handlers[sid].pc = "sa_sleep"
    /\ game_controls_lock = "free"
    /\ G_key(sid, handlers[sid].user, handlers[sid].key, FALSE, Idle)
    /\ UNCHANGED <<app, fvars, sid_to_user, game_controls_lock, sid_to_user_lock>>
    /\ Observe

\* finish_tutorial: the user is the playerName of the payload.
T_finish_tutorial(sid, u) ==
    /\ Fresh(sid) /\ game_controls_lock = "free"
    /\ G_retire(sid, u)
    /\ UNCHANGED <<app, fvars, sid_to_user, game_controls_lock, sid_to_user_lock>>
    /\ Observe

\* ----------------------------------------- tutorial_app: user_game_loop
SetLoop(i, pc, result, sids) ==
    loopTasks' = [loopTasks EXCEPT ![i] = [user |-> @.user, pc |-> pc,
                                           result |-> result, sids |-> sids]]

FrameEvent(r) ==
    IF r.has_episode_finished /\ r.episode_finished THEN "episode_finished" ELSE "frame"

\* Variant: only the first connection of the user is served.
EmitFirstOnly(i, r, sids) ==
    IF sids = <<>>
    THEN /\ SetLoop(i, "top", NoRes, <<>>)
         /\ emitted' = NoMsg
    ELSE /\ emitted' = Msg(FrameEvent(r), Head(sids), r)
         /\ SetLoop(i, "top", NoRes, <<>>)

\* Emit result r to the first of the connections sids still to be served;
\* after the last one comes the frame-rate sleep.
EmitNext(i, r, sids) ==
    IF sids = <<>>
    THEN /\ SetLoop(i, "top", NoRes, <<>>)
         /\ emitted' = NoMsg
    ELSE /\ emitted' = Msg(FrameEvent(r), Head(sids), r)
         /\ IF Tail(sids) = <<>>
            THEN SetLoop(i, "top", NoRes, <<>>)
            ELSE SetLoop(i, "fanout", r, Tail(sids))

\* With result r in hand: look the user's connections up under
\* sid_to_user_lock and emit to the first, or wait for the lock.
Publish(i, r) ==
    IF sid_to_user_lock = "free"
    THEN EmitNext(i, r, SidsOfUser(sid_to_user, loopTasks[i].user))
    ELSE /\ SetLoop(i, "lookup", r, <<>>)
         /\ emitted' = NoMsg

\* One pass of the while-loop from its top: leave when the session is gone,
\* sleep inside the lock block when paused, else step and publish.
T_loop_iter(i, R, F) ==
    /\ app = "tutorial"
    /\ loopTasks[i].pc = "top"
    /\ game_controls_lock = "free"
    /\ UNCHANGED <<app, fvars, handlers, sid_to_user, user_game_loops, sid_to_user_lock>>
    /\ LET u == loopTasks[i].user
       IN  IF u \notin DOMAIN game_controls
           THEN /\ SetLoop(i, "ended", NoRes, <<>>)
                /\ emitted' = NoMsg
                /\ UNCHANGED <<envs, game_controls, game_controls_lock>>
           ELSE LET g == game_controls[u]
                IN  IF ~g.running \/ g.episode_done \/ ~g.current_obs
                    THEN /\ SetLoop(i, "sleep_locked", NoRes, <<>>)
                         /\ game_controls_lock' = LoopNames[i]
                         /\ emitted' = NoMsg
                         /\ UNCHANGED <<envs, game_controls>>
                    ELSE /\ g.step_count < MaxSteps
                         /\ UNCHANGED game_controls_lock
                         /\ \/ \E r \in R, d \in BOOLEAN :
                                  /\ game_controls' =
                                        [game_controls EXCEPT ![u] = step_game(g, r, d)]
                                  /\ Publish(i, step_result(g, r, d))
                                  /\ envs' = EnvStep(envs, g.env,
                                                     get_current_action(g.keys_pressed),
                                                     d, step_result(g, r, d))
                            \/ /\ F /\ MayRaise
                               /\ envs' = EnvRaise(envs, g.env)
                               /\ SetLoop(i, "failed", NoRes, <<>>)
                               /\ emitted' = NoMsg
                               /\ UNCHANGED game_controls
    /\ Observe

\* A pass of the while-loop whose step succeeds and whose first sio.emit
\* raises: no try surrounds the emit, the exception ends the task.
T_loop_emit_fails(i, R) ==
    /\ app = "tutorial"
    /\ loopTasks[i].pc = "top"
    /\ game_controls_lock = "free"
    /\ sid_to_user_lock = "free"
    /\ LET u == loopTasks[i].user
       IN  /\ u \in DOMAIN game_controls
           /\ SidsOfUser(sid_to_user, u) # <<>>
           /\ LET g == game_controls[u]
              IN  /\ g.running /\ ~g.episode_done /\ g.current_obs
                  /\ g.step_count < MaxSteps
                  /\ \E r \in R, d \in BOOLEAN :
                        /\ game_controls' =
                              [game_controls EXCEPT ![u] = step_game(g, r, d)]
                        /\ envs' = EnvStep(envs, g.env,
                                           get_current_action(g.keys_pressed),
                                           d, step_result(g, r, d))
    /\ SetLoop(i, "failed", NoRes, <<>>)
    /\ emitted' = NoMsg
    /\ UNCHANGED <<app, fvars, handlers, sid_to_user, user_game_loops,
                   game_controls_lock, sid_to_user_lock>>
    /\ Observe

T_loop_fanout(i) ==
    /\ app = "tutorial"
    /\ loopTasks[i].pc = "fanout"
    /\ EmitNext(i, loopTasks[i].result, loopTasks[i].sids)
    /\ UNCHANGED <<app, fvars, envs, handlers, game_controls, sid_to_user,
                   user_game_loops, game_controls_lock, sid_to_user_lock>>
    /\ Observe

\* ------------------------- tutorial_app: tasks that waited for a lock
\* These runs happen only once a loop sleeps inside its lock block, which
\* takes a session whose first get_initial_observation raised.

\* The sleep inside the lock block is over: the block is left by continue.
T_loop_wake(i) ==
    /\ app = "tutorial"
    /\ loopTasks[i].pc = "sleep_locked"
    /\ SetLoop(i, "top", NoRes, <<>>)
    /\ game_controls_lock' = "free"
    /\ emitted' = NoMsg
    /\ UNCHANGED <<app, fvars, envs, handlers, game_controls, sid_to_user,
                   user_game_loops, sid_to_user_lock>>
    /\ Observe

T_loop_lookup(i) ==
    /\ app = "tutorial"
    /\ loopTasks[i].pc = "lookup"
    /\ sid_to_user_lock = "free"
    /\ EmitNext(i, loopTasks[i].result, SidsOfUser(sid_to_user, loopTasks[i].user))
    /\ UNCHANGED <<app, fvars, envs, handlers, game_controls, sid_to_user,
                   user_game_loops, game_controls_lock, sid_to_user_lock>>
    /\ Observe

SidLockPcs == {"d_sid", "sg_sid", "ne_sid", "kd_sid", "ku_sid", "sa_sid"}
GameLockPcs == {"d_game", "sg_game", "ne_game", "kd_game", "ku_game", "sa_add", "ft_game"}

\* An event arrives while the first lock its handler takes is held.
T_wait(sid, h) ==
    /\ Fresh(sid)
    /\ \/ h.pc \in SidLockPcs /\ sid_to_user_lock # "free"
       \/ h.pc \in GameLockPcs /\ game_controls_lock # "free"
    /\ h.kind \in {"start_game", "next_episode"} => RoomToStart
    /\ Suspend(sid, h)
    /\ emitted' = NoMsg
    /\ UNCHANGED <<app, envs, tvars, fvars>>
    /\ Observe

T_resume_sid(sid, F) ==
    /\ app = "tutorial"
    /\ handlers[sid].pc \in SidLockPcs
    /\ sid_to_user_lock = "free"
    /\ S_block(sid, handlers[sid], F)
    /\ UNCHANGED <<app, fvars>>
    /\ Observe

T_resume_game(sid, F) ==
    /\ app = "tutorial"
    /\ handlers[sid].pc \in GameLockPcs
    /\ game_controls_lock = "free"
    /\ G_block(sid, handlers[sid], F)
    /\ sid_to_user_lock' = IF handlers[sid].kind = "disconnect" THEN "free"
                           ELSE sid_to_user_lock
    /\ UNCHANGED <<app, fvars, sid_to_user, game_controls_lock>>
    /\ Observe

\* ============================================================ final_app
action_mapping == [a \in 0..3 |-> CASE a = 0 -> 1 [] a = 1 -> 4 [] a = 2 -> 7 [] a = 3 -> 9]

key_to_action == [k \in {"ArrowLeft", "ArrowRight", "Space"} |->
                    CASE k = "ArrowLeft" -> 0 [] k = "ArrowRight" -> 2 [] k = "Space" -> 3]

valid_actions == {"ArrowLeft", "ArrowRight", "ArrowUp", "Space", "PageUp", "PageDown",
                  "1", "2"}

FinalGameControl(e) ==
    [env |-> e, episode_num |-> 0, score |-> 0, last_score |-> 0,
     current_obs |-> FALSE, episode_finished |-> FALSE, step_count |-> 0,
     last_action_time |-> RecentPasses, ready_to_play |-> FALSE]

final_reset(g) ==
    [g EXCEPT !.score = 0, !.step_count = 0, !.current_obs = TRUE,
              !.episode_finished = FALSE, !.last_action_time = RecentPasses]

\* The session after a step() that the engine answered with (reward, done).
final_step_game(g, reward, done) ==
    [g EXCEPT !.step_count = @ + 1, !.score = @ + Round1(reward),
              !.last_score = IF done THEN g.score + Round1(reward) ELSE @,
              !.episode_finished = IF done THEN TRUE ELSE @,
              !.current_obs = TRUE, !.last_action_time = RecentPasses]

final_step_result(g, reward, done) ==
    LET n == final_step_game(g, reward, done)
    IN  [image |-> g.env, episode |-> n.episode_num, reward |-> Round1(reward),
         done |-> done,
         score |-> n.score, last_score |-> n.last_score,
         has_episode_finished |-> FALSE, episode_finished |-> FALSE,
         step_count |-> n.step_count]

\* handle_action on a finished episode: the current state, done = True.
final_finished_response(g) ==
    [image |-> g.env, episode |-> g.episode_num, reward |-> 0, done |-> TRUE,
     score |-> g.score, last_score |-> g.last_score,
     has_episode_finished |-> FALSE, episode_finished |-> FALSE,
     step_count |-> g.step_count]

\* get_initial_observation: reset() with its forward step, episode_num += 1.
final_initial_game(g) == [final_reset(g) EXCEPT !.episode_num = @ + 1]

final_initial_response(g) ==
    [image |-> g.env, episode |-> g.episode_num, reward |-> 0, done |-> FALSE,
     score |-> 0, last_score |-> g.last_score,
     has_episode_finished |-> FALSE, episode_finished |-> FALSE,
     step_count |-> g.step_count]

\* What the engine can answer for done: anything, for the MaxSteps steps of
\* an episode that are followed.
Dones(g) == IF g.step_count < MaxSteps THEN BOOLEAN ELSE {}

\* No task runs while auto_action_handler is between two sessions of a pass.
FReady == app = "final" /\ autoTask.pc # "items"

FFresh(sid) == FReady /\ handlers[sid] = Idle

\* ------------------ final_app: the blocks under final_game_controls_lock
\* Each FG_ operator is the rest of a handler from the point where it has
\* final_game_controls_lock: it says what becomes of envs,
\* final_game_controls, final_game_controls_lock, emitted and handlers.

\* An error event emitted inside the lock block: the handler is suspended in
\* the emit with the lock held.
FG_error_locked(sid, h) ==
    /\ emitted' = Msg("error", sid, NoRes)
    /\ Suspend(sid, [h EXCEPT !.pc = "err_locked"])
    /\ final_game_controls_lock' = sid
    /\ UNCHANGED <<envs, final_game_controls>>

\* get_initial_observation of u's session in table gc, and the game_update;
\* an engine that raises is reported as an error event.
FG_begin_episode(sid, u, gc, es, F) ==
    /\ Finish(sid)
    /\ UNCHANGED final_game_controls_lock
    /\ LET g == DictGet(gc, u)
       IN  \/ /\ final_game_controls' = DictSet(gc, u, final_initial_game(g))
              /\ envs' = EnvReset(es, g.env, 1)
              /\ emitted' = Msg("game_update", sid,
                                final_initial_response(final_initial_game(g)))
           \/ /\ F /\ MayRaise
              /\ final_game_controls' = gc
              /\ envs' = EnvRaise(es, g.env)
              /\ emitted' = Msg("error", sid, NoRes)

FG_start_game(sid, u, F) ==
    IF ~DictHas(final_game_controls, u)
    THEN FG_begin_episode(sid, u,
             Append(final_game_controls, <<u, FinalGameControl(Len(envs) + 1)>>),
             Append(envs, NewEnv(u)), F)
    ELSE FG_begin_episode(sid, u, final_game_controls, envs, F)

FG_next_episode(sid, h, F) ==
    IF ~DictHas(final_game_controls, h.user)
    THEN FG_error_locked(sid, h)
    ELSE FG_begin_episode(sid, h.user, final_game_controls, envs, F)

FG_activate_game(sid, u) ==
    /\ final_game_controls' =
          IF DictHas(final_game_controls, u)
          THEN DictSet(final_game_controls, u,
                       [DictGet(final_game_controls, u) EXCEPT !.ready_to_play = TRUE])
          ELSE final_game_controls
    /\ Finish(sid)
    /\ emitted' = NoMsg
    /\ UNCHANGED <<envs, final_game_controls_lock>>

\* What the save of the final score can do: succeed, fail in SessionLocal(),
\* or fail in add or commit.
DbOutcomes == {"ok", "create_fails", "commit_fails"}

\* The reply of send_action to response res.  A response with done is saved
\* first: when add or commit raises, the handler reports it and goes on to
\* the episode_finished emit; when SessionLocal() raises, session is unbound
\* in the except and finally clauses, and the handler's outer except answers.
Reply(sid, h, res, db) ==
    IF ~res.done
    THEN /\ emitted' = Msg("game_update", sid, res)
         /\ Finish(sid)
    ELSE CASE db = "ok" ->
                /\ emitted' = Msg("episode_finished", sid, res)
                /\ Finish(sid)
           [] db = "create_fails" ->
                /\ emitted' = Msg("error", sid, NoRes)
                /\ Finish(sid)
           [] db = "commit_fails" ->
                /\ emitted' = Msg("error", sid, NoRes)
                /\ Suspend(sid, [h EXCEPT !.pc = "db_failed", !.res = res])

\* send_action with action name h.key: handle_action, the save with outcome
\* db, and the reply.
FG_send_action_db(sid, h, R, F, db) ==
    IF ~DictHas(final_game_controls, h.user) \/ h.key \notin valid_actions
    THEN FG_error_locked(sid, h)
    ELSE LET g == DictGet(final_game_controls, h.user)
         IN  /\ UNCHANGED final_game_controls_lock
             /\ IF g.episode_finished
                THEN /\ Reply(sid, h, final_finished_response(g), db)
                     /\ UNCHANGED <<envs, final_game_controls>>
                ELSE IF h.key \notin DOMAIN key_to_action
                THEN \* handle_action returns None: response["action"] raises
                     /\ emitted' = Msg("error", sid, NoRes)
                     /\ Finish(sid)
                     /\ UNCHANGED <<envs, final_game_controls>>
                ELSE \/ \E r \in R, d \in Dones(g) :
                          /\ final_game_controls' =
                                DictSet(final_game_controls, h.user,
                                        final_step_game(g, r, d))
                          /\ Reply(sid, h, final_step_result(g, r, d), db)
                          /\ envs' = EnvStep(envs, g.env,
                                             action_mapping[key_to_action[h.key]],
                                             d, final_step_result(g, r, d))
                     \/ /\ F /\ MayRaise
                        /\ envs' = EnvRaise(envs, g.env)
                        /\ emitted' = Msg("error", sid, NoRes)
                        /\ Finish(sid)
                        /\ UNCHANGED final_game_controls

\* send_action when the score is saved.
FG_send_action(sid, h, R, F) == FG_send_action_db(sid, h, R, F, "ok")

FG_block(sid, h, R, F) ==
    CASE h.kind = "start_game" -> FG_start_game(sid, h.user, F)
      [] h.kind = "next_episode" -> FG_next_episode(sid, h, F)
      [] h.kind = "activate_game" -> FG_activate_game(sid, h.user)
      [] h.kind = "send_action" -> FG_send_action(sid, h, R, F)

EnterFinalGame(sid, h, R, F) ==
    IF final_game_controls_lock = "free"
    THEN FG_block(sid, h, R, F)
    ELSE /\ Suspend(sid, h)
         /\ emitted' = NoMsg
         /\ UNCHANGED <<envs, final_game_controls, final_game_controls_lock>>

\* ----------------------------------- final_app: the handlers' starts
\* start_game under final_sid_to_user_lock.  An older connection of the user
\* is unbound and sio.disconnect(old_sid) is awaited with the lock held;
\* socketio runs the disconnect handler of old_sid inside that call, and the
\* handler waits for final_sid_to_user_lock.
FS_start_game(sid, u, R, F) ==
    LET olds == SidsOfUser(final_sid_to_user, u)
    IN  IF olds # <<>> /\ olds[1] # sid
        THEN /\ final_sid_to_user' = DictDel(final_sid_to_user, olds[1])
             /\ final_sid_to_user_lock' = sid
             /\ Suspend(sid, Handler("start_game", "evicting", u, olds[1]))
             /\ emitted' = Msg("disconnect", olds[1], NoRes)
             /\ UNCHANGED <<envs, final_game_controls, final_game_controls_lock>>
        ELSE /\ final_sid_to_user' = DictSet(final_sid_to_user, sid, u)
             /\ UNCHANGED final_sid_to_user_lock
             /\ EnterFinalGame(sid, Handler("start_game", "sg_game", u, "none"), R, F)

\* send_action, activate_game, next_episode: final_sid_to_user.get(sid); an
\* unbound connection ends the handler (activate_game without a word).
FS_lookup(sid, kind, pc, a, R, F) ==
    /\ UNCHANGED <<final_sid_to_user, final_sid_to_user_lock>>
    /\ IF DictHas(final_sid_to_user, sid)
       THEN EnterFinalGame(sid, Handler(kind, pc, DictGet(final_sid_to_user, sid), a), R, F)
       ELSE /\ Finish(sid)
            /\ emitted' = IF kind = "activate_game" THEN NoMsg
                          ELSE Msg("error", sid, NoRes)
            /\ UNCHANGED <<envs, final_game_controls, final_game_controls_lock>>

\* ------------------------------------------------- final_app: events
F_disconnect(sid) ==
    /\ FFresh(sid) /\ final_sid_to_user_lock = "free"
    /\ final_sid_to_user' = DictDel(final_sid_to_user, sid)
    /\ Finish(sid)
    /\ emitted' = NoMsg
    /\ UNCHANGED <<app, envs, tvars, final_game_controls, final_game_controls_lock,
                   final_sid_to_user_lock, autoTask, cleanupTask>>
    /\ Observe

F_start_game(sid, u, R, F) ==
    /\ FFresh(sid) /\ final_sid_to_user_lock = "free"
    /\ RoomToStart
    /\ FS_start_game(sid, u, R, F)
    /\ UNCHANGED <<app, tvars, autoTask, cleanupTask>>
    /\ Observe

F_next_episode(sid, R, F) ==
    /\ FFresh(sid) /\ final_sid_to_user_lock = "free"
    /\ RoomToStart
    /\ FS_lookup(sid, "next_episode", "ne_game", "none", R, F)
    /\ UNCHANGED <<app, tvars, autoTask, cleanupTask>>
    /\ Observe

F_activate_game(sid, R, F) ==
    /\ FFresh(sid) /\ final_sid_to_user_lock = "free"
    /\ FS_lookup(sid, "activate_game", "ag_game", "none", R, F)
    /\ UNCHANGED <<app, tvars, autoTask, cleanupTask>>
    /\ Observe

F_send_action(sid, a, R, F) ==
    /\ FFresh(sid) /\ final_sid_to_user_lock = "free"
    /\ FS_lookup(sid, "send_action", "sa_game", a, R, F)
    /\ UNCHANGED <<app, tvars, autoTask, cleanupTask>>
    /\ Observe

\* send_action from a bound connection while no lock is held, with the
\* outcome db of the save of the score.
F_send_action_db(sid, a, R, db) ==
    /\ FFresh(sid)
    /\ final_sid_to_user_lock = "free" /\ final_game_controls_lock = "free"
    /\ DictHas(final_sid_to_user, sid)
    /\ FG_send_action_db(sid, Handler("send_action", "sa_game",
                                      DictGet(final_sid_to_user, sid), a), R, FALSE, db)
    /\ UNCHANGED <<app, tvars, final_sid_to_user, final_sid_to_user_lock, autoTask,
                   cleanupTask>>
    /\ Observe

\* The error emit after a failed add or commit is over: episode_finished.
F_db_failed_return(sid) ==
    /\ FReady
    /\ handlers[sid].pc = "db_failed"
    /\ emitted' = Msg("episode_finished", sid, handlers[sid].res)
    /\ Finish(sid)
    /\ UNCHANGED <<app, envs, tvars, fvars>>
    /\ Observe

\* The emit of an error inside the lock block is over: the block is left.
F_error_return(sid) ==
    /\ FReady
    /\ handlers[sid].pc = "err_locked"
    /\ Finish(sid)
    /\ final_game_controls_lock' = "free"
    /\ emitted' = NoMsg
    /\ UNCHANGED <<app, envs, tvars, final_game_controls, final_sid_to_user,
                   final_sid_to_user_lock, autoTask, cleanupTask>>
    /\ Observe

FinalSidLockPcs == {"d_sid", "sg_sid", "ne_sid", "ag_sid", "sa_sid"}
FinalGameLockPcs == {"sg_game", "ne_game", "ag_game", "sa_game"}

\* An event arrives while final_sid_to_user_lock is held: its handler waits.
F_wait(sid, h) ==
    /\ FFresh(sid)
    /\ h.pc \in FinalSidLockPcs /\ final_sid_to_user_lock # "free"
    /\ h.kind \in {"start_game", "next_episode"} => RoomToStart
    /\ Suspend(sid, h)
    /\ emitted' = NoMsg
    /\ UNCHANGED <<app, envs, tvars, fvars>>
    /\ Observe

\* A handler that waited for final_game_controls_lock goes on.
F_resume_game(sid, R, F) ==
    /\ FReady
    /\ handlers[sid].pc \in FinalGameLockPcs
    /\ final_game_controls_lock = "free"
    /\ FG_block(sid, handlers[sid], R, F)
    /\ UNCHANGED <<app, tvars, final_sid_to_user, final_sid_to_user_lock, autoTask,
                   cleanupTask>>
    /\ Observe

\* ------------------------------------- final_app: auto_action_handler
SetAuto(pc, items, bound, cr, sids) ==
    autoTask' = [pc |-> pc, items |-> items, bound |-> bound, current_result |-> cr,
                 sids |-> sids]

AutoEvent(r) ==
    IF (r.has_episode_finished /\ r.episode_finished) \/ r.done
    THEN "episode_finished" ELSE "game_update"

\* A pass begins: list(final_game_controls.items()) under the lock.
F_auto_pass ==
    /\ app = "final"
    /\ autoTask.pc = "sleep"
    /\ final_game_controls_lock = "free"
    /\ final_game_controls # <<>>
    /\ SetAuto("items", [i \in DOMAIN final_game_controls |-> final_game_controls[i][1]],
               autoTask.bound, autoTask.current_result, <<>>)
    /\ emitted' = NoMsg
    /\ UNCHANGED <<app, envs, handlers, tvars, final_game_controls, final_sid_to_user,
                   final_game_controls_lock, final_sid_to_user_lock, cleanupTask>>
    /\ Observe

\* After the session of Head(items): on to the next one, or sleep(0.02).
\* run is "items" when the task did not suspend, "wait_item" when it did.
AutoAfter(run, items, bound, cr) ==
    IF Tail(items) = <<>>
    THEN SetAuto("sleep", <<>>, bound, cr, <<>>)
    ELSE SetAuto(run, Tail(items), bound, cr, <<>>)

\* if current_result: look the user's connections up and emit to the first.
\* A current_result never assigned raises UnboundLocalError: the task ends.
AutoPublish(items, bound, cr) ==
    IF ~bound
    THEN /\ SetAuto("dead", <<>>, FALSE, NoRes, <<>>)
         /\ emitted' = NoMsg
    ELSE IF final_sid_to_user_lock # "free"
    THEN /\ SetAuto("wait_sids", items, bound, cr, <<>>)
         /\ emitted' = NoMsg
    ELSE LET sids == SidsOfUser(final_sid_to_user, Head(items))
         IN  IF sids = <<>>
             THEN /\ AutoAfter("items", items, bound, cr)
                  /\ emitted' = NoMsg
             ELSE /\ emitted' = Msg(AutoEvent(cr), Head(sids), cr)
                  /\ IF Tail(sids) = <<>>
                     THEN AutoAfter("wait_item", items, bound, cr)
                     ELSE SetAuto("fanout", items, bound, cr, Tail(sids))

\* The emit to the next connection of the user of Head(items).
AutoFanout ==
    /\ emitted' = Msg(AutoEvent(autoTask.current_result), Head(autoTask.sids),
                      autoTask.current_result)
    /\ IF Tail(autoTask.sids) = <<>>
       THEN AutoAfter("wait_item", autoTask.items, autoTask.bound, autoTask.current_result)
       ELSE SetAuto("fanout", autoTask.items, autoTask.bound, autoTask.current_result,
                    Tail(autoTask.sids))
    /\ UNCHANGED <<envs, final_game_controls>>

\* The body of the for-loop for the session of Head(items).
AutoItem(R, F) ==
    LET u == Head(autoTask.items)
        a == autoTask
    IN  IF ~DictHas(final_game_controls, u)
        THEN /\ AutoAfter("items", a.items, a.bound, a.current_result)
             /\ emitted' = NoMsg
             /\ UNCHANGED <<envs, final_game_controls>>
        ELSE LET g == DictGet(final_game_controls, u)
             IN  IF g.episode_finished \/ ~g.ready_to_play
                 THEN /\ AutoAfter("items", a.items, a.bound, a.current_result)
                      /\ emitted' = NoMsg
                      /\ UNCHANGED <<envs, final_game_controls>>
                 ELSE \/ \* the last action is less than 50 ms old
                         /\ g.last_action_time > 0
                         /\ final_game_controls' =
                               DictSet(final_game_controls, u,
                                       [g EXCEPT !.last_action_time = @ - 1])
                         /\ AutoPublish(a.items, a.bound, a.current_result)
                         /\ UNCHANGED envs
                      \/ \E r \in R, d \in Dones(g) :
                            /\ final_game_controls' =
                                  DictSet(final_game_controls, u,
                                          final_step_game(g, r, d))
                            /\ AutoPublish(a.items, TRUE, final_step_result(g, r, d))
                            /\ envs' = EnvStep(envs, g.env, action_mapping[1], d,
                                               final_step_result(g, r, d))
                      \/ /\ F /\ MayRaise
                         /\ envs' = EnvRaise(envs, g.env)
                         /\ SetAuto("dead", <<>>, FALSE, NoRes, <<>>)
                         /\ emitted' = NoMsg
                         /\ UNCHANGED final_game_controls

\* auto_action_handler from one suspension to the next.
F_auto_item(R, F) ==
    /\ app = "final"
    /\ \/ autoTask.pc = "fanout"
       \/ autoTask.pc \in {"items", "wait_item"} /\ final_game_controls_lock = "free"
    /\ IF autoTask.pc = "fanout" THEN AutoFanout ELSE AutoItem(R, F)
    /\ UNCHANGED <<app, handlers, tvars, final_sid_to_user, final_game_controls_lock,
                   final_sid_to_user_lock, cleanupTask>>
    /\ Observe

\* A pass of the for-loop whose step succeeds and whose first sio.emit raises:
\* no try surrounds the emit, the exception ends the task for every user.
F_auto_emit_fails(R) ==
    /\ app = "final"
    /\ autoTask.pc \in {"items", "wait_item"}
    /\ final_game_controls_lock = "free"
    /\ final_sid_to_user_lock = "free"
    /\ LET u == Head(autoTask.items)
       IN  /\ DictHas(final_game_controls, u)
           /\ SidsOfUser(final_sid_to_user, u) # <<>>
           /\ LET g == DictGet(final_game_controls, u)
              IN  /\ ~g.episode_finished /\ g.ready_to_play
                  /\ \E r \in R, d \in Dones(g) :
                        /\ final_game_controls' =
                              DictSet(final_game_controls, u, final_step_game(g, r, d))
                        /\ envs' = EnvStep(envs, g.env, action_mapping[1], d,
                                           final_step_result(g, r, d))
    /\ SetAuto("dead", <<>>, FALSE, NoRes, <<>>)
    /\ emitted' = NoMsg
    /\ UNCHANGED <<app, handlers, tvars, final_sid_to_user, final_game_controls_lock,
                   final_sid_to_user_lock, cleanupTask>>
    /\ Observe

\* -------------------------------- final_app: cleanup_stale_connections
\* One pass: under final_game_controls_lock, every session whose user has no
\* connection (looked up under final_sid_to_user_lock) is deleted.
F_cleanup ==
    /\ FReady
    /\ cleanupTask = "sleep"
    /\ final_game_controls_lock = "free"
    /\ final_game_controls # <<>>
    /\ emitted' = NoMsg
    /\ UNCHANGED <<app, envs, handlers, tvars, final_sid_to_user, final_sid_to_user_lock,
                   autoTask>>
    /\ IF final_sid_to_user_lock = "free"
       THEN /\ final_game_controls' =
                  SelectSeq(final_game_controls,
                            LAMBDA p : SidsOfUser(final_sid_to_user, p[1]) # <<>>)
            /\ UNCHANGED <<final_game_controls_lock, cleanupTask>>
       ELSE /\ final_game_controls_lock' = "cleanup"
            /\ cleanupTask' = "wait_sid"
            /\ UNCHANGED final_game_controls
    /\ Observe

\* ------------------------------------------- start_game and its payload
\* The payload of start_game is a dict; the names tried are the empty one, a
\* blank one and a proper one.
StartPayloads ==
    {<<>>, <<<<"playerName", "">>>>, <<<<"playerName", " ">>>>,
     <<<<"playerName", "alice">>>>}

\* str(user_id).strip() on the names above.
strip(name) == IF name = " " THEN "" ELSE name

\* tutorial_app start_game(sid, data): data["playerName"] raises KeyError
\* when the key is missing, which ends the handler; any name that is there
\* is used as it is.
T_start_game_data(sid, data) ==
    IF DictHas(data, "playerName")
    THEN T_start_game(sid, DictGet(data, "playerName"), FALSE)
    ELSE /\ Fresh(sid)
         /\ emitted' = NoMsg
         /\ UNCHANGED <<app, envs, handlers, tvars, fvars>>
         /\ Observe

\* final_app start_game(sid, data): the two validations, each answered with
\* an error event, before anything is looked up.
F_start_game_data(sid, data, R) ==
    IF \/ data = <<>> \/ ~DictHas(data, "playerName")
       \/ DictGet(data, "playerName") = ""
       \/ strip(DictGet(data, "playerName")) = ""
    THEN /\ FFresh(sid)
         /\ emitted' = Msg("error", sid, NoRes)
         /\ UNCHANGED <<app, envs, handlers, tvars, fvars>>
         /\ Observe
    ELSE F_start_game(sid, DictGet(data, "playerName"), R, FALSE)

\* ------------------------------- start_game handlers that wait together
\* The users with a start_game or next_episode handler in flight.
InFlightUsers == {handlers[s].user : s \in {x \in Sids : handlers[x].kind \in {"start_game", "next_episode"}}}

InFlightOf(u) ==
    Cardinality({s \in Sids : handlers[s].kind \in {"start_game", "next_episode"}
                              /\ handlers[s].user = u})

\* A start_game of u is accepted while the engines that the handlers in
\* flight and this one can need, and the episodes they begin for u, stay
\* within the bounds.
RoomForUser(u) ==
    /\ Len(envs) + Cardinality({v \in InFlightUsers \cup {u} : v \notin DOMAIN game_controls})
          <= MaxEnvs
    /\ (IF u \in DOMAIN game_controls THEN game_controls[u].episode_num ELSE 0)
          + InFlightOf(u) < MaxEpisode

\* tutorial_app start_game as T_start_game, accepted by the bound per user:
\* several handlers of one user can wait for game_controls_lock together.
T_start_game_queued(sid, u, F) ==
    /\ Fresh(sid) /\ sid_to_user_lock = "free"
    /\ RoomForUser(u)
    /\ S_start_game(sid, u, F)
    /\ UNCHANGED <<app, fvars>>
    /\ Observe

\* ------------------------------------------------------ specifications
\* tutorial_app with clients on connections S naming users U, engines that
\* give rewards R, and get_initial_observation never raising.
TLife(S, U, R) ==
    \/ \E sid \in S :
        \/ T_disconnect(sid, FALSE)
        \/ \E u \in U : T_start_game(sid, u, FALSE)
        \/ T_next_episode(sid, FALSE)
        \/ \E u \in U : T_finish_tutorial(sid, u)
    \/ \E i \in DOMAIN loopTasks :
        \/ T_loop_iter(i, R, TRUE)
        \/ T_loop_fanout(i)

TKeys(S, K) ==
    \E sid \in S :
        \/ \E k \in K : T_key_down(sid, k)
        \/ \E k \in K : T_key_up(sid, k)
        \/ \E k \in K : T_send_action(sid, k)
        \/ T_send_action_release(sid)

\* The runs that take a lock to be held across a suspension.
TWaits(S, U, K) ==
    \/ \E sid \in S :
        \/ T_wait(sid, Handler("disconnect", "d_sid", "none", "none"))
        \/ \E u \in U : T_wait(sid, Handler("start_game", "sg_sid", u, "none"))
        \/ T_wait(sid, Handler("next_episode", "ne_sid", "none", "none"))
        \/ \E u \in U : T_wait(sid, Handler("finish_tutorial", "ft_game", u, "none"))
        \/ \E k \in K : T_wait(sid, Handler("key_down", "kd_sid", "none", k))
        \/ T_resume_sid(sid, TRUE)
        \/ T_resume_game(sid, TRUE)
    \/ \E i \in DOMAIN loopTasks :
        \/ T_loop_wake(i)
        \/ T_loop_lookup(i)

\* final_app with clients on connections S naming users U and sending the
\* valid action names A, engines that give rewards R and may raise in a step.
FLife(S, U, A, R) ==
    \/ \E sid \in S :
        \/ F_disconnect(sid)
        \/ \E u \in U : F_start_game(sid, u, R, FALSE)
        \/ F_next_episode(sid, R, FALSE)
        \/ F_activate_game(sid, R, FALSE)
        \/ \E a \in A : F_send_action(sid, a, R, TRUE)
        \/ F_wait(sid, Handler("disconnect", "d_sid", "none", "none"))
        \/ \E u \in U : F_wait(sid, Handler("start_game", "sg_sid", u, "none"))
        \/ F_wait(sid, Handler("activate_game", "ag_sid", "none", "none"))
    \/ F_auto_pass
    \/ F_auto_item(R, TRUE)
    \/ F_cleanup

\* The runs of final_app around an error event emitted inside a lock block.
FErrors(S, R) ==
    \E sid \in S :
        \/ F_error_return(sid)
        \/ F_resume_game(sid, R, TRUE)

Next == TLife(Sids, Users, {0}) \/ FLife(Sids, Users, {"ArrowLeft"}, {0})

Spec == Init /\ [][Next]_vars

\* tutorial_app with one user on one connection who plays with every key.
NextKeys ==
    \/ T_start_game("s1", "alice", FALSE)
    \/ T_disconnect("s1", FALSE)
    \/ T_finish_tutorial("s1", "alice")
    \/ \E i \in DOMAIN loopTasks : T_loop_iter(i, {0}, FALSE)
    \/ TKeys({"s1"}, AllKeys)

InitKeys == Init /\ app = "tutorial"

SpecKeys == InitKeys /\ [][NextKeys]_vars

\* Either server with one user on one connection and an engine whose rewards
\* are not multiples of a tenth.
ScoreRewards == {-12, 47}

NextScore ==
    \/ T_start_game("s1", "alice", FALSE)
    \/ T_next_episode("s1", FALSE)
    \/ \E i \in DOMAIN loopTasks : T_loop_iter(i, ScoreRewards, FALSE)
    \/ F_start_game("s1", "alice", ScoreRewards, FALSE)
    \/ F_next_episode("s1", ScoreRewards, FALSE)
    \/ F_activate_game("s1", ScoreRewards, FALSE)
    \/ F_send_action("s1", "ArrowRight", ScoreRewards, FALSE)
    \/ F_auto_pass
    \/ F_auto_item(ScoreRewards, FALSE)

SpecScore == Init /\ [][NextScore]_vars

\* Either server with clients that send start_game with every payload.
NextPayload ==
    \/ \E sid \in Sids, data \in StartPayloads :
          \/ T_start_game_data(sid, data)
          \/ F_start_game_data(sid, data, {0})
    \/ \E sid \in Sids : T_disconnect(sid, FALSE) \/ F_disconnect(sid)
    \/ \E i \in DOMAIN loopTasks : T_loop_iter(i, {0}, FALSE) \/ T_loop_fanout(i)

SpecPayload == Init /\ [][NextPayload]_vars

\* Both servers with start_game handlers that wait for the session lock
\* while it is held across a suspension: in tutorial_app by the loop of a
\* session whose first observation failed, in final_app by an error emit.
NextRace ==
    \/ \E sid \in Sids :
        \/ \E u \in Users : T_start_game_queued(sid, u, TRUE)
        \/ T_next_episode(sid, FALSE)
        \/ T_resume_game(sid, FALSE)
        \/ F_next_episode(sid, {0}, FALSE)
        \/ \E u \in Users : F_start_game(sid, u, {0}, FALSE)
        \/ F_send_action(sid, "KeyX", {0}, FALSE)
        \/ F_error_return(sid)
        \/ F_resume_game(sid, {0}, FALSE)
    \/ \E i \in DOMAIN loopTasks :
        \/ T_loop_iter(i, {0}, FALSE)
        \/ T_loop_fanout(i)
        \/ T_loop_wake(i)

SpecRace == Init /\ [][NextRace]_vars

\* Either server with one user, two connections in tutorial_app, and
\* the history of deliveries kept.
NextOrder ==
    \/ \E sid \in Sids : T_start_game(sid, "alice", FALSE)
    \/ \E i \in DOMAIN loopTasks : T_loop_iter(i, {0}, FALSE) \/ T_loop_fanout(i)
    \/ F_start_game("s1", "alice", {0}, FALSE)
    \/ F_activate_game("s1", {0}, FALSE)
    \/ F_send_action("s1", "ArrowLeft", {0}, FALSE)
    \/ F_auto_pass
    \/ F_auto_item({0}, FALSE)

InitOrder == InitState /\ delivered = Deliveries(TRUE)

SpecOrder == InitOrder /\ [][NextOrder]_vars

\* final_app with two players whose scores are saved with every outcome.
NextDb ==
    \/ F_start_game("s1", "alice", {0}, FALSE)
    \/ F_start_game("s2", "bob", {0}, FALSE)
    \/ \E sid \in Sids :
        \/ F_next_episode(sid, {0}, FALSE)
        \/ \E db \in DbOutcomes : F_send_action_db(sid, "ArrowLeft", {0}, db)
        \/ F_db_failed_return(sid)

\* final_app with clients that send every action name the handler accepts
\* and one that it does not.
ActionNames == valid_actions \cup {"KeyX"}

NextActions ==
    \/ F_start_game("s1", "alice", {0}, FALSE)
    \/ F_start_game("s2", "bob", {0}, FALSE)
    \/ F_disconnect("s1")
    \/ \E sid \in Sids, a \in ActionNames : F_send_action(sid, a, {0}, FALSE)
    \/ FErrors(Sids, {0})

InitActions == Init /\ app = "final"

SpecActions == InitActions /\ [][NextActions]_vars

SpecDb == InitActions /\ [][NextDb]_vars

\* ---------------------------------------------------------- observations
\* What the properties below read off a state of either server.
ConnectionsOf(u) ==
    IF app = "tutorial" THEN SidsOfUser(sid_to_user, u)
    ELSE SidsOfUser(final_sid_to_user, u)

HasSession(u) ==
    IF app = "tutorial" THEN u \in DOMAIN game_controls
    ELSE DictHas(final_game_controls, u)

SessionOf(u) ==
    IF app = "tutorial" THEN game_controls[u] ELSE DictGet(final_game_controls, u)

\* Engine e belongs to a session of the table.
Referenced(e) == \E u \in Users : HasSession(u) /\ SessionOf(u).env = e

EnginesOf(u) == {e \in DOMAIN envs : envs[e].owner = u}

LiveEnginesOf(u) == {e \in EnginesOf(u) : envs[e].closed = 0}

LiveLoopsOf(u) ==
    {i \in DOMAIN loopTasks : loopTasks[i].user = u /\ LoopLive(loopTasks[i])}

\* The task that steps u's session is still able to run.
DriverLive(u) ==
    IF app = "tutorial" THEN LiveLoopsOf(u) # {} ELSE autoTask.pc # "dead"

\* The session of u is one its driver would step.
Active(u) ==
    /\ HasSession(u)
    /\ IF app = "tutorial"
       THEN SessionOf(u).running /\ ~SessionOf(u).episode_done
       ELSE SessionOf(u).ready_to_play /\ ~SessionOf(u).episode_finished

\* The engine of u raised in the step of the task that drives it.
DriverFailed(u) ==
    /\ \E e \in EnginesOf(u) : envs[e].raised
    /\ IF app = "tutorial"
       THEN \E i \in DOMAIN loopTasks :
                loopTasks[i].user = u /\ loopTasks[i].pc = "failed"
       ELSE autoTask.pc = "dead"

\* The number of episodes of u whose first observation has been published.
EpisodesBegun(u) ==
    Cardinality({p \in published : p[1] = "initial" /\ p[2] \in EnginesOf(u)})

\* This step is the start_game handler of connection sid for user u, run
\* from the event to its first suspension or its end.
StartGameStep(sid, u) ==
    \/ T_start_game(sid, u, FALSE)
    \/ F_start_game(sid, u, {0}, FALSE)

\* ----------------------------------------------------------------- C1
\* C1: whenever tutorial_app answers a start_game of user u, u has exactly
\* one live tick loop and exactly one live (unclosed) engine.
C1_OneLoopOneEngine ==
    [][\A sid \in Sids, u \in Users :
          T_start_game(sid, u, FALSE) /\ IsInitial(emitted')
          => (Cardinality(LiveLoopsOf(u)) = 1 /\ Cardinality(LiveEnginesOf(u)) = 1)']_vars

\* start_game has been answered for a session whose loop had failed.
C1_Witness ==
    /\ app = "tutorial"
    /\ IsInitial(emitted) /\ emitted.res.episode = 2
    /\ \E i \in DOMAIN loopTasks :
          /\ loopTasks[i].pc = "failed"
          /\ HasSession(loopTasks[i].user)
          /\ SessionOf(loopTasks[i].user).env = emitted.res.image

\* ----------------------------------------------------------------- C2
\* C2: once a user who had a session has no connection and no session
\* left, the close of each engine of that user has been invoked exactly once.
C2_ClosedExactlyOnce ==
    \A u \in Users :
        ConnectionsOf(u) = <<>> /\ ~HasSession(u)
        => \A e \in EnginesOf(u) : envs[e].closed = 1

\* The reaper has removed the session of a user without connections.
C2_Witness ==
    /\ app = "final"
    /\ \E u \in Users :
          EnginesOf(u) # {} /\ ConnectionsOf(u) = <<>> /\ ~HasSession(u)

\* ----------------------------------------------------------------- C3
\* C3: no progress event of an episode is published to a connection of its
\* user once the episode_finished event of that episode has been published.
C3_NoProgressAfterFinished ==
    IsProgress(emitted) /\ emitted.to \in SeqToSet(ConnectionsOf(envs[emitted.res.image].owner))
    => <<"finished", emitted.res.image, emitted.res.episode>> \notin published

\* An episode_finished event has been published by the tick loop.
C3_Witness ==
    /\ app = "tutorial"
    /\ emitted.event = "episode_finished"
    /\ <<"finished", emitted.res.image, emitted.res.episode>> \in published

\* ----------------------------------------------------------------- C4
\* C4: when the task driving u's session has ended on a raise of the
\* engine's step, the session of u is gone and its engine has been closed.
C4_RetiredOnFailure ==
    \A u \in Users :
        DriverFailed(u)
        => \A e \in EnginesOf(u) : envs[e].raised => ~Referenced(e) /\ envs[e].closed >= 1

\* A tick loop has ended on a raise of the engine's step.
C4_Witness == \E u \in Users : app = "tutorial" /\ DriverFailed(u)

\* ----------------------------------------------------------------- C5
\* C5: after the engine of user a raised in its driver, the driver of every
\* other user b with an active, unfinished session is still able to run.
C5_OthersKeepRunning ==
    \A a \in Users, b \in Users :
        a # b /\ DriverFailed(a) /\ Active(b) => DriverLive(b)

\* Two users are being driven and the engine of one of them has raised.
C5_Witness ==
    \E a \in Users, b \in Users :
        a # b /\ DriverFailed(a) /\ Active(b) /\ app = "final"

\* ----------------------------------------------------------------- C6
\* C6: a start_game handler can always go on to its answer: it never waits
\* for a registry lock that it holds itself (the disconnect handler that
\* sio.disconnect runs inside the evicting start_game needs
\* final_sid_to_user_lock).
C6_NoSelfDeadlock ==
    \A sid \in Sids :
        ~(final_sid_to_user_lock = sid /\ handlers[sid].pc = "evicting")

\* An event that arrived after the eviction waits for the lock.
C6_Witness ==
    \E sid \in Sids, other \in Sids :
        /\ handlers[sid].pc = "evicting"
        /\ handlers[other].pc \in FinalSidLockPcs

\* ----------------------------------------------------------------- C7
\* C7: the start_game of connection sid for user u, run while another
\* connection is bound to u, leaves no other connection bound to u and
\* hands the transport the instruction to disconnect the older connection.
C7_Eviction ==
    [][\A sid \in Sids, u \in Users :
          LET olds == SeqToSet(ConnectionsOf(u)) \ {sid}
          IN  StartGameStep(sid, u) /\ olds # {}
              => /\ SeqToSet(ConnectionsOf(u))' \subseteq {sid}
                 /\ emitted'.event = "disconnect" /\ emitted'.to \in olds]_vars

\* Two connections are bound to one user.
C7_Witness ==
    \E u \in Users : Len(ConnectionsOf(u)) = 2

\* Both servers with sends that may fail: two users, two connections, no
\* engine failure.
SpecSend ==
    Init /\ [][
        \/ \E sid \in Sids, u \in Users :
             \/ T_start_game(sid, u, FALSE)
             \/ F_start_game(sid, u, {0}, FALSE)
        \/ \E sid \in Sids : F_activate_game(sid, {0}, FALSE)
        \/ \E i \in DOMAIN loopTasks :
             \/ T_loop_iter(i, {0}, FALSE)
             \/ T_loop_fanout(i)
             \/ T_loop_emit_fails(i, {0})
        \/ F_auto_pass
        \/ F_auto_item({0}, FALSE)
        \/ F_auto_emit_fails({0})
    ]_vars

\* Both servers with every task that takes the session-table lock, the
\* blocks that suspend inside it and the handlers that wait for it; one
\* tutorial user, whose first get_initial_observation may raise.
SpecLock ==
    Init /\ [][
        \/ \E sid \in Sids :
             \/ T_start_game_queued(sid, "alice", TRUE)
             \/ T_next_episode(sid, FALSE)
             \/ T_disconnect(sid, FALSE)
             \/ T_finish_tutorial(sid, "alice")
        \/ \E i \in DOMAIN loopTasks : T_loop_iter(i, {0}, FALSE) \/ T_loop_fanout(i)
        \/ TWaits(Sids, {"alice"}, {"ArrowLeft"})
        \/ F_start_game("s1", "alice", {0}, FALSE)
        \/ F_start_game("s2", "bob", {0}, FALSE)
        \/ \E sid \in Sids :
             \/ F_next_episode(sid, {0}, FALSE)
             \/ F_activate_game(sid, {0}, FALSE)
             \/ \E a \in {"ArrowLeft", "KeyX"} : F_send_action(sid, a, {0}, FALSE)
             \/ F_disconnect(sid)
             \/ F_error_return(sid)
             \/ F_resume_game(sid, {0}, FALSE)
        \/ F_auto_pass
        \/ F_auto_item({0}, FALSE)
    ]_vars

\* tutorial_app with a client that holds keys on connection s1 and sends the
\* legacy send_action on connection s2 only for a key that is in the held set.
SpecHold ==
    InitKeys /\ [][
        \/ \E sid \in Sids : T_start_game(sid, "alice", FALSE)
        \/ \E k \in AllKeys : T_key_down("s1", k) \/ T_key_up("s1", k)
        \/ \E k \in AllKeys :
              /\ HasSession("alice")
              /\ k \in SessionOf("alice").keys_pressed
              /\ T_send_action("s2", k)
        \/ T_send_action_release("s2")
        \/ \E i \in DOMAIN loopTasks : T_loop_iter(i, {0}, FALSE)
    ]_vars

\* final_app with the save of the final score and the auto-forward handler.
SpecSink ==
    InitActions /\ [][
        \/ NextDb
        \/ \E sid \in Sids : F_activate_game(sid, {0}, FALSE)
        \/ F_auto_pass
        \/ F_auto_item({0}, FALSE)
    ]_vars

\* ----------------------------------------------------------------- C8
\* C8 (as stated): no tick loop ends while a connection that was bound to
\* its user when the result was produced has not been sent the result.
C8_EveryResultToBoth ==
    \A i \in DOMAIN loopTasks : ~LoopLive(loopTasks[i]) => loopTasks[i].sids = <<>>

\* C8 (amended): with two connections bound to the user, a step result goes
\* to the first at once and to the second in the loop's next run, each time
\* as episode_finished when its episode_finished flag is true and as a frame
\* otherwise; only the cancellation of the loop between the two emits keeps
\* the result from the second connection.
C8_FanOut ==
    [][\A i \in DOMAIN loopTasks :
          LET t == loopTasks[i]
              sids == SidsOfUser(sid_to_user, t.user)
              ev(r) == IF r.episode_finished THEN "episode_finished" ELSE "frame"
          IN  /\ T_loop_iter(i, {0}, TRUE) /\ Len(sids) = 2 /\ emitted'.event # "none"
                 => /\ emitted'.to = sids[1]
                    /\ emitted'.event = ev(emitted'.res)
                    /\ loopTasks'[i].pc = "fanout"
                    /\ loopTasks'[i].result = emitted'.res
                    /\ loopTasks'[i].sids = <<sids[2]>>
              /\ t.pc = "fanout" /\ loopTasks'[i] # t
                 => \/ loopTasks'[i].pc = "cancelled"
                    \/ /\ emitted' = Msg(ev(t.result), Head(t.sids), t.result)
                       /\ loopTasks'[i].pc = IF Len(t.sids) = 1 THEN "top" ELSE "fanout"
                       /\ loopTasks'[i].sids = Tail(t.sids)]_vars

\* The second of two connections of a user has been sent a frame.
C8_Witness ==
    \E u \in Users :
        /\ app = "tutorial"
        /\ Len(ConnectionsOf(u)) = 2
        /\ emitted.event = "frame"
        /\ emitted.to = ConnectionsOf(u)[2]
        /\ HasSession(u) /\ emitted.res.image = SessionOf(u).env

\* ----------------------------------------------------------------- C9
\* C9 (as stated): a start_game for a user without a connection, one episode
\* of whom has begun, is answered with episode 2.
C9_ReconnectEpisodeTwo ==
    [][\A sid \in Sids, u \in Users :
          /\ StartGameStep(sid, u) /\ IsInitial(emitted')
          /\ ConnectionsOf(u) = <<>> /\ EpisodesBegun(u) = 1
          => emitted'.res.episode = 2]_vars

\* C9 (amended): the disconnect of a user's last connection retires the
\* session in tutorial_app, and the start_game of a user without a
\* connection, one episode of whom has begun, is answered with episode 1
\* when the session has been retired (in tutorial_app by that disconnect, in
\* final_app by a pass of cleanup_stale_connections) and with episode 2 only
\* when the session is still in the table.
C9_ReconnectEpisode ==
    [][\A sid \in Sids, u \in Users :
          /\ /\ T_disconnect(sid, FALSE)
             /\ SeqToSet(ConnectionsOf(u)) = {sid}
             => ~HasSession(u)'
          /\ /\ StartGameStep(sid, u) /\ IsInitial(emitted')
             /\ ConnectionsOf(u) = <<>> /\ EpisodesBegun(u) = 1
             => emitted'.res.episode = IF HasSession(u) THEN 2 ELSE 1]_vars

\* tutorial_app has answered the start_game after a reconnect: a second
\* engine of the user, its first episode, the first engine closed.
C9_Witness ==
    \E u \in Users :
        /\ app = "tutorial"
        /\ IsInitial(emitted) /\ emitted.res.episode = 1
        /\ envs[emitted.res.image].owner = u
        /\ \E e \in EnginesOf(u) :
              /\ e # emitted.res.image /\ envs[e].closed = 1
              /\ <<"initial", e, 1>> \in published
        /\ Len(ConnectionsOf(u)) = 1

\* ---------------------------------------------------------------- C10
\* C10: for the keys held in any session, get_current_action is left (0) if
\* ArrowLeft is held, else right (2) if ArrowRight is held, else throw (3) if
\* Space is held, else forward (1), and the other keys held do not matter.
C10_ActionPriority ==
    \A u \in DOMAIN game_controls :
        LET keys == game_controls[u].keys_pressed
            a == get_current_action(keys)
        IN  /\ a \in {0, 1, 2, 3}
            /\ "ArrowLeft" \in keys => a = 0
            /\ "ArrowLeft" \notin keys /\ "ArrowRight" \in keys => a = 2
            /\ {"ArrowLeft", "ArrowRight"} \cap keys = {} /\ "Space" \in keys => a = 3
            /\ {"ArrowLeft", "ArrowRight", "Space"} \cap keys = {} => a = ACTION_FORWARD
            /\ a = get_current_action(keys \cap {"ArrowLeft", "ArrowRight", "Space"})

\* A session with every key held at once.
C10_Witness ==
    \E u \in DOMAIN game_controls : game_controls[u].keys_pressed = AllKeys

\* A tick of loop i is due: the loop is at its top and its session is running
\* an unfinished episode with an observation.
Ticking(i) ==
    /\ app = "tutorial"
    /\ i \in DOMAIN loopTasks
    /\ loopTasks[i].pc = "top"
    /\ game_controls_lock = "free"
    /\ loopTasks[i].user \in DOMAIN game_controls
    /\ LET g == game_controls[loopTasks[i].user]
       IN  g.running /\ ~g.episode_done /\ g.current_obs

\* The result of the engine's last step belongs to the running episode.
MidEpisode(e) == envs[e].last_result # NoRes /\ ~envs[e].over

\* C11: on every tick of a running, unfinished episode during which ArrowLeft
\* is held, the loop steps the engine with the left action (0) and publishes a
\* progress frame whose step_count is one more than the session's count, and
\* one more than the step_count of the frame of the previous tick of the
\* episode.
C11_LeftHeldTicks ==
    [][\A i \in DOMAIN loopTasks :
          (/\ Ticking(i)
           /\ "ArrowLeft" \in game_controls[loopTasks[i].user].keys_pressed
           /\ T_loop_iter(i, {0}, FALSE))
          => LET g == game_controls[loopTasks[i].user]
             IN  /\ envs'[g.env].action = 0
                 /\ envs'[g.env].last_result.step_count = g.step_count + 1
                 /\ MidEpisode(g.env) =>
                        envs'[g.env].last_result.step_count =
                           envs[g.env].last_result.step_count + 1
                 /\ SidsOfUser(sid_to_user, loopTasks[i].user) # <<>> =>
                        /\ emitted'.event = "frame" \/ emitted'.res.done
                        /\ emitted'.res = envs'[g.env].last_result]_vars

\* Two consecutive ticks with ArrowLeft held have each stepped the engine
\* with the left action; the second frame is on its way.
C11_Witness ==
    /\ app = "tutorial"
    /\ \E u \in DOMAIN game_controls :
          LET g == game_controls[u]
          IN  /\ "ArrowLeft" \in g.keys_pressed
              /\ g.step_count = 2
              /\ envs[g.env].action = 0
              /\ envs[g.env].last_result.step_count = 2
              /\ emitted.event = "frame"
              /\ emitted.res.step_count = 2

RECURSIVE Sum(_)
Sum(q) == IF q = <<>> THEN 0 ELSE Head(q) + Sum(Tail(q))

\* C12: the result of the N-th step of an episode reports step_count N and a
\* score equal to the sum of the N rounded rewards reported by the results of
\* that episode, on both servers.
C12_ScoreIsSumOfRounded ==
    \A e \in DOMAIN envs :
        envs[e].last_result # NoRes =>
            /\ envs[e].last_result.step_count = Len(envs[e].rewards)
            /\ envs[e].last_result.score = Sum(envs[e].rewards)

\* Two steps of one episode whose engine rewards 0.47 and -0.12 were reported
\* as 0.5 and -0.1 and whose second result reports the score 0.4.
C12_Witness ==
    \E e \in DOMAIN envs :
        /\ envs[e].rewards = <<5, -1>>
        /\ envs[e].last_result.step_count = 2
        /\ envs[e].last_result.score = 4

\* The payloads without a usable player name.
BadPayloads == {d \in StartPayloads : ~DictHas(d, "playerName")
                                       \/ strip(DictGet(d, "playerName")) = ""}

\* C13: a start_game whose payload has no playerName, or an empty or blank
\* one, is answered with an error event to the connection it came from and
\* changes no binding, session, engine or tick loop.
C13_BadStartRejected ==
    [][\A sid \in Sids, data \in BadPayloads :
          T_start_game_data(sid, data) \/ F_start_game_data(sid, data, {0})
          => /\ emitted'.event = "error" /\ emitted'.to = sid
             /\ UNCHANGED <<envs, game_controls, sid_to_user, user_game_loops,
                            loopTasks, final_game_controls, final_sid_to_user>>]_vars

\* tutorial_app has a session, an engine and a tick loop for the blank name.
C13_Witness ==
    /\ app = "tutorial"
    /\ " " \in DOMAIN game_controls
    /\ " " \in DOMAIN user_game_loops
    /\ \E sid \in Sids : DictHas(sid_to_user, sid) /\ DictGet(sid_to_user, sid) = " "
    /\ \E e \in DOMAIN envs : envs[e].owner = " "

\* The user that connection sid is bound to, "none" when it is unbound.
BoundUser(sid) ==
    IF app = "tutorial"
    THEN IF DictHas(sid_to_user, sid) THEN DictGet(sid_to_user, sid) ELSE "none"
    ELSE IF DictHas(final_sid_to_user, sid) THEN DictGet(final_sid_to_user, sid)
         ELSE "none"

\* C14: a next_episode from a connection bound to a user that has no live
\* session is answered with an error event and creates no session, engine or
\* tick loop.
C14_NextEpisodeNeedsSession ==
    [][\A sid \in Sids :
          (/\ BoundUser(sid) \in Users
           /\ ~HasSession(BoundUser(sid))
           /\ T_next_episode(sid, FALSE) \/ F_next_episode(sid, {0}, FALSE))
          => /\ emitted'.event = "error" /\ emitted'.to = sid
             /\ UNCHANGED <<envs, game_controls, user_game_loops, loopTasks,
                            final_game_controls>>]_vars

\* tutorial_app after finish_tutorial retired alice's first engine: a second
\* engine and session exist for her, begun by next_episode at episode 1.
C14_Witness ==
    /\ app = "tutorial"
    /\ "alice" \in DOMAIN game_controls
    /\ game_controls["alice"].env = 2
    /\ envs[1].owner = "alice" /\ envs[1].closed >= 1
    /\ envs[2].owner = "alice"
    /\ emitted.event = "game_update" /\ emitted.res.image = 2
    /\ \A sid \in Sids : handlers[sid] = Idle

\* C15: in final_app a send_action with any of the accepted action names,
\* from a connection whose user has a session with an unfinished episode,
\* applies one step and is answered with game_update or episode_finished.
C15_ValidActionSteps ==
    [][\A sid \in Sids, a \in valid_actions :
          (/\ app = "final"
           /\ final_game_controls_lock = "free"
           /\ BoundUser(sid) \in Users
           /\ HasSession(BoundUser(sid))
           /\ ~SessionOf(BoundUser(sid)).episode_finished
           /\ F_send_action(sid, a, {0}, FALSE))
          => /\ emitted'.to = sid
             /\ emitted'.event \in {"game_update", "episode_finished"}
             /\ DictGet(final_game_controls', BoundUser(sid)).step_count =
                   SessionOf(BoundUser(sid)).step_count + 1]_vars

\* A send_action has just been answered with an error event although the
\* connection's user has a session with an unfinished episode and nobody
\* holds or waits for a lock.
C15_Witness ==
    /\ app = "final"
    /\ emitted.event = "error"
    /\ final_game_controls_lock = "free"
    /\ \A sid \in Sids : handlers[sid] = Idle
    /\ BoundUser(emitted.to) \in Users
    /\ HasSession(BoundUser(emitted.to))
    /\ ~SessionOf(BoundUser(emitted.to)).episode_finished
    /\ SessionOf(BoundUser(emitted.to)).step_count = 1

\* C16: key_down adds its key to, and key_up removes it from, keys_pressed of
\* the session of the user bound to the connection and changes nothing else;
\* from an unbound connection, or for a user without a session, the event
\* changes nothing.
C16_KeysOnlyTouchHeldSet ==
    [][\A sid \in Sids, k \in AllKeys, down \in BOOLEAN :
          (IF down THEN T_key_down(sid, k) ELSE T_key_up(sid, k))
          => /\ UNCHANGED <<envs, handlers, sid_to_user, user_game_loops, loopTasks,
                            game_controls_lock, sid_to_user_lock, published>>
             /\ IF BoundUser(sid) \in DOMAIN game_controls
                THEN game_controls' =
                        [game_controls EXCEPT
                            ![BoundUser(sid)].keys_pressed =
                                IF down THEN @ \cup {k} ELSE @ \ {k}]
                ELSE UNCHANGED game_controls]_vars

\* A key_up has left one of two held keys in the set.
C16_Witness ==
    /\ app = "tutorial"
    /\ emitted = NoMsg
    /\ BoundUser("s1") \in DOMAIN game_controls
    /\ game_controls[BoundUser("s1")].keys_pressed = {"ArrowRight"}
    /\ game_controls[BoundUser("s1")].step_count = 1
    /\ handlers["s1"] = Idle

\* C17: a disconnect of a connection whose user has another bound connection
\* removes that one binding and leaves every session, engine and tick loop
\* as it was; a disconnect that changes an engine, a session or a loop is
\* that of the user's last connection.
C17_DisconnectKeepsSharedSession ==
    [][\A sid \in Sids :
          (BoundUser(sid) \in Users /\ (T_disconnect(sid, FALSE) \/ F_disconnect(sid)))
          => LET others == {s \in SeqToSet(ConnectionsOf(BoundUser(sid))) : s # sid}
             IN  /\ sid_to_user' = DictDel(sid_to_user, sid)
                 /\ final_sid_to_user' = DictDel(final_sid_to_user, sid)
                 /\ others # {} =>
                        UNCHANGED <<envs, game_controls, user_game_loops, loopTasks,
                                    final_game_controls>>]_vars

\* One of two connections of a user has gone; the other is bound, the
\* session runs on its open engine and its loop is live.
C17_Witness ==
    /\ app = "tutorial"
    /\ \E u \in Users :
          /\ ConnectionsOf(u) = <<"s2">>
          /\ ~DictHas(sid_to_user, "s1")
          /\ HasSession(u)
          /\ SessionOf(u).running
          /\ envs[SessionOf(u).env].closed = 0
          /\ LiveLoopsOf(u) # {}
          /\ <<"initial", SessionOf(u).env, 2>> \in published

\* C18: a finish_tutorial, or a disconnect of the last connection, for a user
\* whose session has already been retired changes no engine, session or tick
\* loop, and close is invoked at most once on each engine.
C18_RetireIdempotent ==
    [][/\ \A e \in DOMAIN envs' : envs'[e].closed <= 1
       /\ \A sid \in Sids, u \in Users :
             (/\ app = "tutorial"
              /\ ~HasSession(u)
              /\ \/ T_finish_tutorial(sid, u)
                 \/ BoundUser(sid) = u /\ T_disconnect(sid, FALSE))
             => UNCHANGED <<envs, game_controls, user_game_loops, loopTasks>>]_vars

\* finish_tutorial has retired the session of a user who still has a bound
\* connection, whose disconnect will run the clean-up once more.
C18_Witness ==
    /\ app = "tutorial"
    /\ \E u \in Users :
          /\ ~HasSession(u)
          /\ ConnectionsOf(u) # <<>>
          /\ \E e \in EnginesOf(u) : envs[e].closed = 1
          /\ LiveLoopsOf(u) = {}

\* The sessions of either server, as <<user, engine>> pairs.
Sessions ==
    IF app = "tutorial"
    THEN {<<u, game_controls[u].env>> : u \in DOMAIN game_controls}
    ELSE {<<final_game_controls[i][1], final_game_controls[i][2].env>> :
             i \in DOMAIN final_game_controls}

\* C19: whatever the interleaving of the start_game and next_episode handlers
\* of a user, a step creates at most one engine, and only for a user who has
\* no session, whose session then runs on it with one live tick loop; a user
\* who has a session never gets another one, and no engine is shared.
C19_OneInstall ==
    [][/\ Len(envs') <= Len(envs) + 1
       /\ \A u \in Users :
             /\ HasSession(u) /\ HasSession(u)' => SessionOf(u)'.env = SessionOf(u).env
             /\ EnginesOf(u)' # EnginesOf(u) =>
                   /\ ~HasSession(u) /\ HasSession(u)'
                   /\ SessionOf(u)'.env = Len(envs')
                   /\ envs'[Len(envs')].owner = u
                   /\ app = "tutorial" => Cardinality(LiveLoopsOf(u)') = 1
       /\ \A p \in Sessions', q \in Sessions' : p[2] = q[2] => p = q]_vars

\* Two start_game handlers of one user waited for game_controls_lock
\* together; the first has gone on, created the session and been answered,
\* the second still waits.
C19_Witness ==
    /\ app = "tutorial"
    /\ \E u \in Users, s \in Sids, w \in Sids :
          /\ s # w
          /\ handlers[w].kind = "start_game" /\ handlers[w].pc = "sg_game"
          /\ handlers[w].user = u
          /\ HasSession(u)
          /\ IsInitial(emitted) /\ emitted.to = s
          /\ emitted.res.image = SessionOf(u).env /\ emitted.res.episode = 1
          /\ DictGet(sid_to_user, s) = u

\* C20: a step result sent to a connection that last received a result of
\* the same unfinished episode does not report a smaller step_count than
\* that one did.
C20_DeliveredInOrder ==
    [][\A sid \in Sids :
          (/\ CarriesResult(emitted') /\ emitted'.to = sid
           /\ delivered.last[sid].image = emitted'.res.image
           /\ delivered.last[sid].episode = emitted'.res.episode
           /\ ~delivered.last[sid].done)
          => emitted'.res.step_count >= delivered.last[sid].step_count]_vars

\* final_app has just sent the result of step 1 to a connection that had
\* already received the result of step 2 of the same episode.
C20_Witness ==
    /\ app = "final"
    /\ delivered.on
    /\ emitted.event = "game_update"
    /\ emitted.res.step_count = 1
    /\ HasSession("alice")
    /\ SessionOf("alice").step_count = 2
    /\ SessionOf("alice").episode_num = emitted.res.episode
    /\ envs[emitted.res.image].last_result.step_count = 2
    /\ envs[emitted.res.image].action = action_mapping[key_to_action["ArrowLeft"]]

\* ---------------------------------------------------------------- C21
\* C21: a pass of cleanup_stale_connections removes the session of every
\* user without a bound connection and has that session's engine closed,
\* and keeps the session of every user who has a bound connection.
C21_ReaperReleases ==
    [][(app = "final" /\ final_sid_to_user_lock = "free" /\ F_cleanup)
       => \A i \in DOMAIN final_game_controls :
             LET u == final_game_controls[i][1]
                 e == final_game_controls[i][2].env
             IN  IF ConnectionsOf(u) = <<>>
                 THEN ~DictHas(final_game_controls', u) /\ envs'[e].closed >= 1
                 ELSE DictHas(final_game_controls', u)]_vars

\* The reaper has removed one session, whose engine was never closed, and
\* kept the session of a user with a connection.
C21_Witness ==
    /\ app = "final"
    /\ cleanupTask = "sleep"
    /\ \E e \in DOMAIN envs : ~Referenced(e) /\ envs[e].closed = 0
    /\ \E u \in Users : HasSession(u) /\ ConnectionsOf(u) # <<>>

\* ---------------------------------------------------------------- C22
\* C22: whatever the save of the final score does, a send_action whose step
\* ended the episode delivers episode_finished for it: at once, or after the
\* report of the failed save.
C22_FinishedDespiteSaveFailure ==
    [][\A sid \in Sids, db \in DbOutcomes :
          (/\ F_send_action_db(sid, "ArrowLeft", {0}, db)
           /\ ~SessionOf(BoundUser(sid)).episode_finished
           /\ SessionOf(BoundUser(sid))'.episode_finished)
          => \/ emitted'.event = "episode_finished" /\ emitted'.to = sid
             \/ handlers'[sid].pc = "db_failed"]_vars

\* A step has ended the episode and its handler has finished with an error
\* event: no episode_finished is to come.
C22_Witness ==
    /\ app = "final"
    /\ emitted.event = "error"
    /\ handlers[emitted.to] = Idle
    /\ BoundUser(emitted.to) \in Users
    /\ HasSession(BoundUser(emitted.to))
    /\ SessionOf(BoundUser(emitted.to)).episode_finished
    /\ envs[SessionOf(BoundUser(emitted.to)).env].over
    /\ <<"finished", SessionOf(BoundUser(emitted.to)).env,
         SessionOf(BoundUser(emitted.to)).episode_num>> \notin published

(* C23: in final_app every initial observation (start_game or next_episode)
   pauses the session: whenever a step raises a session's episode counter,
   the session afterwards is not ready to play, so the auto-forward handler,
   which steps only a ready session, performs no step on it before an
   activate_game that follows that initial observation. *)
C23_PausedAfterInitial ==
    [][app = "final" =>
         \A u \in Users :
            (/\ HasSession(u) /\ HasSession(u)'
             /\ SessionOf(u)'.episode_num > SessionOf(u).episode_num)
            => ~SessionOf(u)'.ready_to_play]_vars

(* next_episode has handed out the initial observation of a second episode,
   no step of it has been taken, no activate_game has followed, and the
   session is still ready to play from the activation of the first episode. *)
C23_Witness ==
    /\ app = "final"
    /\ IsInitial(emitted)
    /\ BoundUser(emitted.to) \in Users
    /\ HasSession(BoundUser(emitted.to))
    /\ SessionOf(BoundUser(emitted.to)).episode_num = 2
    /\ SessionOf(BoundUser(emitted.to)).step_count = 0
    /\ SessionOf(BoundUser(emitted.to)).ready_to_play

(* C24: when a step of a session's engine returns done, the session copies
   the final score into last_score and sets its finished flag; and while the
   engine's episode is over and no new episode has been begun on it, no step
   changes the engine (no engine step is invoked) nor the session's score,
   step counter and last_score. *)
C24_FinishedEpisodeFrozen ==
    [][\A u \in Users :
          (/\ HasSession(u) /\ HasSession(u)'
           /\ SessionOf(u)'.env = SessionOf(u).env
           /\ SessionOf(u)'.episode_num = SessionOf(u).episode_num)
          => LET e == SessionOf(u).env
                 g == SessionOf(u)
                 n == SessionOf(u)'
             IN  /\ (~envs[e].over /\ envs'[e].over)
                    => /\ n.last_score = envs'[e].last_result.score
                       /\ IF app = "tutorial" THEN n.episode_done
                          ELSE n.episode_finished
                 /\ envs[e].over
                    => /\ envs'[e] = envs[e]
                       /\ n.score = g.score
                       /\ n.step_count = g.step_count
                       /\ n.last_score = g.last_score]_vars

(* A tutorial session whose first episode has ended with a score other than
   0 (last_score is written only by a step that returned done) and which has
   been stepped again since, with no new episode begun. *)
C24_Witness ==
    /\ app = "tutorial"
    /\ HasSession("alice")
    /\ SessionOf("alice").episode_num = 1
    /\ SessionOf("alice").last_score # 0
    /\ SessionOf("alice").step_count >= 1
    /\ ~SessionOf("alice").episode_done

(* C25: a session's episode counter starts at 0 and is raised by exactly 1 by
   each get_initial_observation and by nothing else.  For every step and every
   user: a session that appears in the step has begun at most one episode; a
   session that persists on its engine keeps its counter or raises it by 1,
   and raises it only in a step that hands out an initial observation or in
   which the engine failed during one; and every initial observation handed
   out carries done = false and the episode number of its session, which is
   one more than before (1 for a fresh session). *)
C25_EpisodeCounter ==
    [][\A u \in Users :
          LET kept == HasSession(u) /\ HasSession(u)'
                      /\ SessionOf(u)'.env = SessionOf(u).env
              before == IF kept THEN SessionOf(u).episode_num ELSE 0
          IN  HasSession(u)' =>
                 LET n == SessionOf(u)'
                     began == IsInitial(emitted') /\ emitted'.res.image = n.env
                 IN  /\ n.episode_num \in {before, before + 1}
                     /\ n.episode_num # before
                           => \/ began
                              \/ envs'[n.env].raised /\ ~envs[n.env].raised
                     /\ began => /\ n.episode_num = before + 1
                                 /\ emitted'.res.episode = n.episode_num
                                 /\ ~emitted'.res.done]_vars

(* A session whose first start_game answered with the initial observation of
   episode 1 has just handed out the initial observation of episode 2. *)
C25_Witness ==
    /\ IsInitial(emitted)
    /\ emitted.res.episode = 2
    /\ ~emitted.res.done
    /\ <<"initial", emitted.res.image, 1>> \in published
    /\ \E u \in Users :
          /\ HasSession(u) /\ SessionOf(u).env = emitted.res.image
          /\ SessionOf(u).episode_num = 2

(* C26: get_initial_observation resets the engine once and forces one engine
   step, and the engine action of that forced step is the engine action the
   default forward input produces during play: the action of
   get_current_action with no key held in tutorial_app, and the action that
   action_mapping assigns to forward (1) in final_app.  An engine whose last
   call was the reset and forced step of an initial observation has received
   that action. *)
C26_ForcedStepIsForward ==
    \A e \in DOMAIN envs :
       (envs[e].action # -1 /\ envs[e].last_result = NoRes /\ ~envs[e].raised)
       => envs[e].action = IF app = "tutorial" THEN get_current_action({})
                           ELSE action_mapping[1]

(* A final_app session whose initial observation has just been handed out:
   the forced step of its engine used engine action 1, which action_mapping
   assigns to left, while forward is engine action 4. *)
C26_Witness ==
    /\ app = "final"
    /\ IsInitial(emitted)
    /\ envs[emitted.res.image].last_result = NoRes
    /\ envs[emitted.res.image].action = action_mapping[0]
    /\ action_mapping[1] # action_mapping[0]

(* C27: in tutorial_app, the step that removes a user's session from the
   session table (disconnect of the last connection, finish_tutorial) leaves
   every tick loop of that user terminated: it is cancelled where it is
   suspended and never runs again.  A terminated loop never changes again,
   and an engine that belongs to no session is not stepped or reset and no
   frame made from it is published. *)
C27_LoopStopsWithSession ==
    [][app = "tutorial" =>
         /\ \A u \in Users :
               (HasSession(u) /\ ~HasSession(u)')
               => \A i \in DOMAIN loopTasks :
                     loopTasks[i].user = u => ~LoopLive(loopTasks'[i])
         /\ \A i \in DOMAIN loopTasks :
               ~LoopLive(loopTasks[i]) => loopTasks'[i] = loopTasks[i]
         /\ \A e \in DOMAIN envs :
               ~Referenced(e)
               => /\ envs'[e].action = envs[e].action
                  /\ envs'[e].rewards = envs[e].rewards
                  /\ envs'[e].last_result = envs[e].last_result
                  /\ ~(CarriesResult(emitted') /\ emitted'.res.image = e)]_vars

(* A user whose session was removed while its loop was between the two emits
   of a step result: the session is gone, its engine was stepped and is
   closed, and the loop is cancelled with the second emit never made. *)
C27_Witness ==
    /\ app = "tutorial"
    /\ \E i \in DOMAIN loopTasks :
          /\ loopTasks[i].pc = "cancelled"
          /\ loopTasks[i].sids # <<>>
          /\ ~HasSession(loopTasks[i].user)
          /\ envs[loopTasks[i].result.image].closed >= 1
          /\ envs[loopTasks[i].result.image].last_result = loopTasks[i].result

(* C28 (as stated): a session is retired in the order cancel the tick loop,
   wait until the loop has terminated, close the engine, remove the session:
   the step that closes an engine finds every tick loop of the engine's user
   already terminated. *)
C28_LoopEndedBeforeClose ==
    [][\A e \in DOMAIN envs :
          (envs[e].closed = 0 /\ envs'[e].closed >= 1)
          => \A i \in DOMAIN loopTasks :
                loopTasks[i].user = envs[e].owner => ~LoopLive(loopTasks[i])]_vars

(* C28 (amended): a session is retired in one uninterrupted block that closes
   the engine, removes the session and then cancels the user's tick loop,
   without waiting for the loop to terminate: the step that closes an engine
   also removes the session that ran on it and leaves no tick loop of its
   user live.  Between task runs no closed engine belongs to a session, so no
   live tick loop can step it, and no engine is stepped or reset after its
   close. *)
C28_RetireInOneBlock ==
    [][\A e \in DOMAIN envs :
          /\ (envs[e].closed = 0 /\ envs'[e].closed >= 1)
             => /\ Referenced(e) /\ ~Referenced(e)'
                /\ \A i \in DOMAIN loopTasks :
                      loopTasks[i].user = envs[e].owner => ~LoopLive(loopTasks'[i])
          /\ envs'[e].closed >= 1 => ~Referenced(e)'
          /\ envs[e].closed >= 1
             => /\ envs'[e].action = envs[e].action
                /\ envs'[e].rewards = envs[e].rewards
                /\ envs'[e].last_result = envs[e].last_result]_vars

(* A user's first session was retired while its loop was live at the top of
   its pass (engine closed, loop cancelled with the cancellation found at an
   await), and the user now plays a new session on another engine that a
   new, live loop has stepped. *)
C28_Witness ==
    /\ app = "tutorial"
    /\ \E u \in Users, i \in DOMAIN loopTasks :
          /\ loopTasks[i].user = u
          /\ loopTasks[i].pc = "cancelled"
          /\ loopTasks[i].sids = <<>>
          /\ \E e \in EnginesOf(u) : envs[e].closed = 1 /\ envs[e].last_result # NoRes
          /\ HasSession(u)
          /\ envs[SessionOf(u).env].closed = 0
          /\ envs[SessionOf(u).env].last_result # NoRes
          /\ LiveLoopsOf(u) # {}

(* C29: a failed send is isolated.  A run of a driving loop in which the
   emit of a step result to a user's first connection fails leaves every
   active session with a live driver (the loop of that user goes on, and so
   does frame delivery for the other users), and in tutorial_app the loop
   goes on to send the same result to the user's other connection. *)
C29_SendFailureIsolated ==
    [][/\ F_auto_emit_fails({0}) => \A u \in Users : Active(u)' => DriverLive(u)'
       /\ \A i \in DOMAIN loopTasks :
             T_loop_emit_fails(i, {0})
             => /\ \A u \in Users : Active(u)' => DriverLive(u)'
                /\ Len(SidsOfUser(sid_to_user, loopTasks[i].user)) = 2
                   => /\ loopTasks'[i].pc = "fanout"
                      /\ loopTasks'[i].result = envs'[SessionOf(loopTasks[i].user).env].last_result]_vars

(* The emit of a step result to the first of a user's two connections has
   failed in tutorial_app: no engine has failed, the session is still being
   played, the result was sent to neither connection and the user's loop is
   dead. *)
C29_Witness ==
    /\ app = "tutorial"
    /\ \A e \in DOMAIN envs : ~envs[e].raised
    /\ \E u \in Users :
          /\ Active(u)
          /\ Len(ConnectionsOf(u)) = 2
          /\ envs[SessionOf(u).env].last_result.step_count >= 1
          /\ ~DriverLive(u)

(* C30: every engine reset, step and close is executed by a task that holds
   the session-table lock (game_controls_lock in tutorial_app,
   final_game_controls_lock in final_app): a task run that creates an engine
   or changes an engine's call log or closes it begins with the lock free,
   so that it takes the lock itself, and never happens while another task
   holds the lock across a suspension. *)
C30_EngineUnderLock ==
    [][\A e \in DOMAIN envs' :
          (e \notin DOMAIN envs \/ envs'[e] # envs[e])
          => IF app = "tutorial" THEN game_controls_lock = "free"
             ELSE final_game_controls_lock = "free"]_vars

(* A tick loop sleeps inside its lock block, holding game_controls_lock,
   while a disconnect that will close the engine of the user's session waits
   for the lock. *)
C30_Witness ==
    /\ app = "tutorial"
    /\ game_controls_lock # "free"
    /\ \E i \in DOMAIN loopTasks : loopTasks[i].pc = "sleep_locked"
    /\ \E sid \in Sids :
          /\ handlers[sid].kind = "disconnect"
          /\ handlers[sid].pc \in GameLockPcs
          /\ HasSession(handlers[sid].user)
          /\ envs[SessionOf(handlers[sid].user).env].closed = 0

(* C31: the registry locks are held only for short critical sections.  No
   session-table lock is held by a task that is suspended in a sleep or in a
   transport operation (emit, disconnect), and a connection-map lock is held
   across a suspension only by tutorial_app's disconnect while it waits for
   the session-table lock. *)
C31_ShortCriticalSections ==
    /\ game_controls_lock = "free"
    /\ final_game_controls_lock = "free"
    /\ final_sid_to_user_lock = "free"
    /\ sid_to_user_lock # "free"
          => /\ handlers[sid_to_user_lock].kind = "disconnect"
             /\ handlers[sid_to_user_lock].pc \in GameLockPcs

(* final_app: a send_action with an unknown action name is suspended in the
   emit of its error event inside the block of final_game_controls_lock,
   and another connection's handler waits for that lock. *)
C31_Witness ==
    /\ app = "final"
    /\ final_game_controls_lock \in Sids
    /\ handlers[final_game_controls_lock].pc = "err_locked"
    /\ emitted.event = "error"
    /\ \E s \in Sids : handlers[s].pc \in FinalGameLockPcs

(* C32: in final_app every result that auto_action_handler emits to a
   connection bound to user u was produced by a step of u's own session: the
   engine the result was made from is the engine of the session of the user
   the receiving connection is bound to. *)
C32_OwnResultsOnly ==
    [][(F_auto_item({0}, TRUE) /\ CarriesResult(emitted'))
       => /\ BoundUser(emitted'.to) \in Users
          /\ HasSession(BoundUser(emitted'.to))
          /\ emitted'.res.image = SessionOf(BoundUser(emitted'.to)).env]_vars

(* Two users play in final_app; auto_action_handler has just sent to a
   connection bound to one of them a result made from the engine of the
   other user's session. *)
C32_Witness ==
    /\ app = "final"
    /\ autoTask.pc # "dead"
    /\ CarriesResult(emitted)
    /\ emitted.res.step_count >= 1
    /\ \E a, b \in Users :
          /\ a # b
          /\ HasSession(a) /\ HasSession(b)
          /\ BoundUser(emitted.to) = b
          /\ emitted.res.image = SessionOf(a).env
          /\ envs[SessionOf(b).env].last_result = NoRes

(* C33: in final_app a run of auto_action_handler emits a result only if it
   stepped that session's engine in the same run, and a run in which the
   50 ms gate is not met emits nothing and leaves the handler task
   running. *)
C33_EmitOnlyAfterStep ==
    [][F_auto_item({0}, FALSE)
       => /\ autoTask'.pc # "dead"
          /\ (CarriesResult(emitted') /\ autoTask.pc # "fanout")
                => envs'[emitted'.res.image] # envs[emitted'.res.image]]_vars

(* The first pass of auto_action_handler over an activated session whose
   initial observation is less than 50 ms old: no engine has failed and no
   step was ever taken, current_result was never assigned, and the handler
   task is dead. *)
C33_Witness ==
    /\ app = "final"
    /\ autoTask.pc = "dead"
    /\ \A e \in DOMAIN envs : ~envs[e].raised /\ envs[e].last_result = NoRes
    /\ \E u \in Users : Active(u) /\ ConnectionsOf(u) # <<>>

(* C34: in final_app each finished episode is recorded in the score sink
   exactly once.  The only code that writes a record is the save in
   send_action, reached when the response carries done = true and followed,
   when it succeeds, by the emit of episode_finished.  So every terminal step
   of a session is taken by a run of send_action that reaches the save, and
   a send_action received after the episode has finished does not reach it
   again. *)
C34_RecordedOnce ==
    [][/\ \A u \in Users :
             (/\ HasSession(u) /\ HasSession(u)'
              /\ ~SessionOf(u).episode_finished
              /\ SessionOf(u)'.episode_finished)
             => \E sid \in Sids, db \in DbOutcomes :
                   /\ BoundUser(sid) = u
                   /\ F_send_action_db(sid, "ArrowLeft", {0}, db)
       /\ \A sid \in Sids :
             (/\ F_send_action_db(sid, "ArrowLeft", {0}, "ok")
              /\ HasSession(BoundUser(sid))
              /\ SessionOf(BoundUser(sid)).episode_finished)
             => emitted'.event # "episode_finished"]_vars

(* The auto-forward handler has taken the terminal step of an episode: the
   session is finished, the result the handler holds is that step's, with
   done = true, and no run of send_action was involved. *)
C34_Witness ==
    /\ app = "final"
    /\ autoTask.current_result.done
    /\ autoTask.pc # "dead"
    /\ \E u \in Users :
          /\ HasSession(u)
          /\ SessionOf(u).episode_finished
          /\ SessionOf(u).env = autoTask.current_result.image
          /\ SessionOf(u).episode_num = autoTask.current_result.episode
          /\ envs[SessionOf(u).env].last_result = autoTask.current_result

(* C35: the initial observation of a new episode reaches the requesting
   connection before any progress frame of that episode.  The initial
   observation is emitted in the run that resets the engine, when no step of
   the new episode has been taken yet, and every result of a step that is
   emitted belongs to an episode whose initial observation was emitted
   before it. *)
C35_InitialBeforeFrames ==
    [][/\ IsInitial(emitted')
          => /\ envs'[emitted'.res.image].last_result = NoRes
             /\ envs'[emitted'.res.image].rewards = <<>>
       /\ (CarriesResult(emitted') /\ emitted'.res.step_count >= 1)
          => <<"initial", emitted'.res.image, emitted'.res.episode>> \in published]_vars

(* tutorial_app: the engine raised inside the get_initial_observation of a
   second start_game, after the episode counter was raised; the connection
   is being sent a frame of episode 2, whose initial observation was never
   emitted. *)
C35_Witness ==
    /\ app = "tutorial"
    /\ emitted.event = "frame"
    /\ emitted.res.step_count >= 1
    /\ emitted.res.episode = 2
    /\ envs[emitted.res.image].raised
    /\ <<"initial", emitted.res.image, 1>> \in published
    /\ <<"initial", emitted.res.image, 2>> \notin published
    /\ BoundUser(emitted.to) \in Users
    /\ HasSession(BoundUser(emitted.to))
    /\ SessionOf(BoundUser(emitted.to)).env = emitted.res.image

(* C36: in tutorial_app, whenever no handler is in progress, every session
   in the session table belongs to a user that has at least one bound
   connection. *)
C36_SessionsHaveConnections ==
    (app = "tutorial" /\ \A s \in Sids : handlers[s] = Idle)
    => \A u \in DOMAIN game_controls : ConnectionsOf(u) # <<>>

(* A connection that started a game for one user has started a game for
   another: no handler is in progress, the first user's session is still
   played by its live loop on its open engine, and no connection is bound to
   that user. *)
C36_Witness ==
    /\ app = "tutorial"
    /\ \A s \in Sids : handlers[s] = Idle
    /\ \E a, b \in Users :
          /\ a # b
          /\ HasSession(a) /\ HasSession(b)
          /\ ConnectionsOf(a) = <<>>
          /\ ConnectionsOf(b) # <<>>
          /\ SessionOf(a).running
          /\ LiveLoopsOf(a) # {}
          /\ envs[SessionOf(a).env].closed = 0
(* C37: in tutorial_app a key that key_down has put in the held set stays in
   it until a key_up for that key or a reset of the session; under SpecHold
   send_action is sent only for a key that is in the held set, so the release
   of a send_action, which ends its 0.1 s hold, removes no key from the set of
   a session. *)
C37_HeldKeySurvivesSendAction ==
    [][\A sid \in Sids, u \in Users :
          (/\ T_send_action_release(sid)
           /\ handlers[sid].user = u
           /\ HasSession(u)
           /\ HasSession(u)')
          => SessionOf(u).keys_pressed \subseteq SessionOf(u)'.keys_pressed]_vars

\* C37: a key_down key is held, and a send_action for the same key is asleep
\* before its discard.
C37_Witness ==
    /\ app = "tutorial"
    /\ handlers["s2"].kind = "send_action" /\ handlers["s2"].pc = "sa_sleep"
    /\ handlers["s1"] = Idle
    /\ HasSession(handlers["s2"].user)
    /\ handlers["s2"].key \in SessionOf(handlers["s2"].user).keys_pressed
    /\ BoundUser("s1") = handlers["s2"].user
(* C38: in tutorial_app a finish_tutorial issued on a connection leaves the
   session, the engine and the tick-loop handle of every user other than the
   one the connection is bound to as they were. *)
C38_FinishOwnSessionOnly ==
    [][\A sid \in Sids, u \in Users, v \in Users :
          (/\ T_finish_tutorial(sid, u)
           /\ v # BoundUser(sid)
           /\ v \in DOMAIN game_controls)
          => /\ v \in DOMAIN game_controls'
             /\ envs'[game_controls[v].env] = envs[game_controls[v].env]
             /\ v \in DOMAIN user_game_loops => v \in DOMAIN user_game_loops']_vars

\* C38: bob's session is gone and its engine closed while bob's connection is
\* still bound and alice's session runs.
C38_Witness ==
    /\ app = "tutorial"
    /\ \A s \in Sids : handlers[s] = Idle
    /\ BoundUser("s1") = "alice" /\ BoundUser("s2") = "bob"
    /\ "alice" \in DOMAIN game_controls /\ game_controls["alice"].running
    /\ "bob" \notin DOMAIN game_controls /\ "bob" \notin DOMAIN user_game_loops
    /\ \E e \in DOMAIN envs : envs[e].closed >= 1 /\ ~Referenced(e)
    /\ \E i \in DOMAIN loopTasks :
          loopTasks[i].user = "bob" /\ loopTasks[i].pc = "cancelled"
(* C39: in tutorial_app, whenever the session-table lock is free, the users
   that have a session are exactly the users that have a tick-loop handle. *)
C39_SessionsMatchLoopHandles ==
    (app = "tutorial" /\ game_controls_lock = "free")
    => DOMAIN game_controls = DOMAIN user_game_loops

\* C39: a session has been retired and its loop cancelled, and a session with
\* its loop handle has been created afterwards.
C39_Witness ==
    /\ app = "tutorial" /\ game_controls_lock = "free"
    /\ DOMAIN game_controls # {}
    /\ \E i \in DOMAIN loopTasks, u \in DOMAIN user_game_loops :
          /\ loopTasks[i].pc = "cancelled"
          /\ loopTasks[i].user = u
          /\ user_game_loops[u] # i
          /\ u \in DOMAIN game_controls
(* C40: a result record published with done = TRUE, in tutorial_app and in
   final_app, carries a last_score equal to its score, the final score of the
   episode that has just finished. *)
C40_TerminalLastScore ==
    (CarriesResult(emitted) /\ emitted.res.done)
    => emitted.res.last_score = emitted.res.score

\* C40: tutorial_app publishes the terminal record of an episode with a
\* last_score other than its score, and the session has taken that score as
\* its last_score.
C40_Witness ==
    /\ app = "tutorial"
    /\ emitted.event = "episode_finished" /\ emitted.res.done
    /\ emitted.res.step_count >= 1
    /\ emitted.res.last_score # emitted.res.score
    /\ \E u \in DOMAIN game_controls :
          /\ game_controls[u].env = emitted.res.image
          /\ game_controls[u].episode_num = emitted.res.episode
          /\ game_controls[u].last_score = emitted.res.score
          /\ game_controls[u].score = 0

====
